---- MODULE Spec2Model ----
(***************************************************************************)
(* Market simulation engine (backend/app/engine): the tick of              *)
(* SimulationEngine, the regime state machine, the macro updater, the      *)
(* price sweep of StockPriceEngine and IPOManager.process.                 *)
(*                                                                         *)
(* Fixed point.  Prices are integers in cents; VIX in hundredths of a      *)
(* point; the interest rate in 1e-4 percentage points; metabolic health in *)
(* 1e-6; shares in units of 1e5 shares, so market caps are in units of     *)
(* 1e3 dollars.  Probabilities are in thousandths.  Random draws of the    *)
(* code are inputs bound by \E over the finite sets of an input record.    *)
(***************************************************************************)
EXTENDS Integers, Sequences, FiniteSets, TLC

VARIABLES
    phase,              \* market_state.phase
    time_in_phase,      \* SimulationEngine.time_in_phase
    tick_count,         \* SimulationEngine.tick_count
    regime,             \* regime_manager.current_regime
    rm_ticks_since_last_check,   \* regime_manager.ticks_since_last_check
    vix,                \* market_state.vix
    interest_rate,      \* market_state.interest_rate
    stocks,             \* SimulationEngine.stocks, a list of Stock records
    market_cap_history, \* SimulationEngine.market_cap_history
    logs,               \* SimulationEngine.logs
    bankruptcy_count,   \* cycle_analytics.bankruptcy_count
    ipo_count,          \* cycle_analytics.ipo_count
    ipo_ticks_since_last_check,  \* ipo_manager.ticks_since_last_check
    ipo_stock_id_counter,        \* ipo_manager.stock_id_counter
    ipo_event,          \* what the last call of IPOManager.process returned
    calls,              \* how many times the driver has called tick()
    exc,                \* the exception the last tick() call raised, or "none"
    gap_calls,          \* direct calls of _apply_gap_pricing made so far
    snapshot,           \* the dicts get_frontend_snapshot() has returned
                        \* since the engine was last called to change state
    analytics,          \* the other fields of cycle_analytics
    rand,               \* <<u>> for the value u of random.random() that the
                        \* last call of regime_manager.update() drew, <<>>
                        \* when it drew none
    loop,               \* the task running simulation_loop
    active_connections, \* manager.active_connections
    sockets,            \* the WebSocket connections and their handlers
    bcast               \* the call of manager.broadcast in progress

vars == <<phase, time_in_phase, tick_count, regime, rm_ticks_since_last_check,
          vix, interest_rate, stocks, market_cap_history, logs,
          bankruptcy_count, ipo_count, ipo_ticks_since_last_check,
          ipo_stock_id_counter, ipo_event, calls, exc, gap_calls, snapshot,
          analytics, rand, loop, active_connections, sockets, bcast>>

\* the scheduler, the connection manager and the connections
netvars == <<loop, active_connections, sockets, bcast>>

Max(a, b) == IF a >= b THEN a ELSE b
Min(a, b) == IF a <= b THEN a ELSE b

-----------------------------------------------------------------------------
(* config.py *)

TRADING_WINDOW_TICKS == 12
CLOSE_WINDOW_TICKS == 8
HISTORY_LENGTH == 60

RegimeOrder == <<"GROWTH", "STAGNATION", "CONTRACTION", "CRISIS">>
Regimes == {RegimeOrder[i] : i \in 1..4}

\* REGIMES[r]['vix_base'], in hundredths of a point
VixBase(r) ==
    CASE r = "GROWTH" -> 1500
      [] r = "STAGNATION" -> 1800
      [] r = "CONTRACTION" -> 2500
      [] r = "CRISIS" -> 3500

\* sum(REGIMES[r]['rate_range']) / 2, in 1e-4 percentage points
TargetRate(r) ==
    CASE r = "GROWTH" -> 7500
      [] r = "STAGNATION" -> 25000
      [] r = "CONTRACTION" -> 42500
      [] r = "CRISIS" -> 47500

\* rows that give every successor the same mass
REGIME_TRANSITIONS_Even(r) == <<250, 250, 250, 250>>

\* REGIME_TRANSITIONS[r], in thousandths, in the declared order of the keys
REGIME_TRANSITIONS(r) ==
    CASE r = "GROWTH" -> <<994, 4, 2, 0>>
      [] r = "STAGNATION" -> <<2, 991, 5, 2>>
      [] r = "CONTRACTION" -> <<4, 4, 989, 3>>
      [] r = "CRISIS" -> <<2, 6, 2, 990>>

-----------------------------------------------------------------------------
(* CycleAnalytics.__init__.  The three sample lists company_counts,         *)
(* vix_values and interest_rate_values are appended to and emptied          *)
(* together; n_samples is their common length.                             *)

AnalyticsFresh ==
    [completed_cycles |-> <<>>,
     current_cycle_start_tick |-> 0,
     current_cycle_number |-> 0,
     n_samples |-> 0,
     regime_ticks |-> [r \in Regimes |-> 0],
     last_regime |-> "None",
     regime_transition_count |-> 0,
     market_cap_history |-> <<>>]

-----------------------------------------------------------------------------
(* main.py and api/websocket.py before the first client and the first      *)
(* step of the scheduler task.                                             *)

MaxSockets == 2
Sockets == 1..MaxSockets

\* a connection no client has opened yet.  wire lists the types of the
\* messages handed to send_json on it, in the order of the calls
NewSocket == [handler |-> "new", peer |-> "open", wire |-> <<>>]

\* no call of broadcast in progress.  i is the position of the list iterator
\* of `for connection in self.active_connections`, conn the connection whose
\* send_json is awaited, sent the connections send_json was called on,
\* listed the connections on the list when the call began
BroadcastIdle ==
    [pc |-> "idle", i |-> 0, conn |-> 0, disconnected |-> <<>>, sent |-> <<>>,
     listed |-> {}]

\* the task is created and has not run yet
NetIdle ==
    /\ loop = [pc |-> "start", tick_counter |-> 0, broadcasts |-> 0,
               cancelled |-> FALSE]
    /\ active_connections = <<>>
    /\ sockets = [c \in Sockets |-> NewSocket]
    /\ bcast = BroadcastIdle

-----------------------------------------------------------------------------
(* SimulationEngine._add_log: append, keep the last 10 *)

LOG_RING == 10

\* a ring that, once full, turns new entries away
AddLogKeepOldest(lg, msg, type, tick) ==
    IF Len(lg) >= LOG_RING THEN lg
    ELSE Append(lg, [msg |-> msg, type |-> type, tick |-> tick])

AddLog(lg, msg, type, tick) ==
    LET appended == Append(lg, [msg |-> msg, type |-> type, tick |-> tick])
    IN  IF Len(appended) > LOG_RING
        THEN SubSeq(appended, Len(appended) - LOG_RING + 1, Len(appended))
        ELSE appended

RECURSIVE AddLogs(_, _, _, _)
AddLogs(lg, msgs, type, tick) ==
    IF msgs = <<>> THEN lg
    ELSE AddLogs(AddLog(lg, Head(msgs), type, tick), Tail(msgs), type, tick)

-----------------------------------------------------------------------------
(* SimulationEngine._update_phase and _apply_gap_pricing *)

GAP_FLOOR == 10     \* max(0.1, gapped_price), in cents

\* the gapped price without its floor
GappedPriceUnfloored(price, gap_bp) == (price * (10000 + gap_bp)) \div 10000

\* gap_magnitude in basis points (signed): stock.price * (1 + gap_magnitude)
GappedPrice(price, gap_bp) == Max(GAP_FLOOR, (price * (10000 + gap_bp)) \div 10000)

\* a gap step that also records the gapped price in the history
ApplyGapPricingRecording(stks, g) ==
    [i \in 1..Len(stks) |->
        IF stks[i].status = "bankrupt" THEN stks[i]
        ELSE [stks[i] EXCEPT
                !.price = Max(GAP_FLOOR, (@ * (10000 + g[i])) \div 10000),
                !.history = Append(Tail(@),
                               Max(GAP_FLOOR,
                                   (stks[i].price * (10000 + g[i])) \div 10000))]]

\* g[i] is the signed gap drawn for stocks[i]
ApplyGapPricing(stks, g) ==
    [i \in 1..Len(stks) |->
        IF stks[i].status = "bankrupt" THEN stks[i]
        ELSE [stks[i] EXCEPT !.price = GappedPrice(stks[i].price, g[i])]]

\* a comparison that lets each window run one tick longer
TradingWindowOverLate(t) == t > TRADING_WINDOW_TICKS
CloseWindowOverLate(t) == t > CLOSE_WINDOW_TICKS

\* self.time_in_phase >= TRADING_WINDOW_TICKS, >= CLOSE_WINDOW_TICKS
TradingWindowOver(t) == t >= TRADING_WINDOW_TICKS
CloseWindowOver(t) == t >= CLOSE_WINDOW_TICKS

\* the phase, the clock, the stocks and the logs after _update_phase
UpdatePhase(ph, tip, stks, lg, g, tick) ==
    LET t == tip + 1 IN
    IF ph = "TRADING" /\ TradingWindowOver(t)
    THEN [phase |-> "CLOSED", time_in_phase |-> 0, stocks |-> stks,
          logs |-> AddLog(lg, "Market closing", "warning", tick)]
    ELSE IF ph = "CLOSED" /\ CloseWindowOver(t)
    THEN [phase |-> "TRADING", time_in_phase |-> 0,
          stocks |-> ApplyGapPricing(stks, g),
          logs |-> AddLog(lg, "Market open", "success", tick)]
    ELSE [phase |-> ph, time_in_phase |-> t, stocks |-> stks, logs |-> lg]

-----------------------------------------------------------------------------
(* RegimeManager.update *)

REGIME_CHECK_TICKS == 5

RECURSIVE Cumulative(_, _)
Cumulative(row, k) == IF k = 0 THEN 0 ELSE Cumulative(row, k - 1) + row[k]

\* the last successor, in declared order, with rand < cumulative
NextRegimeLast(r, u) ==
    LET row == REGIME_TRANSITIONS(r)
        hits == {k \in 1..4 : u < Cumulative(row, k)}
    IN  IF hits = {} THEN r
        ELSE RegimeOrder[CHOOSE k \in hits : \A j \in hits : k >= j]

\* the first successor, in declared order, with rand < cumulative; the
\* current regime when the loop ends without one
NextRegime(r, u) ==
    LET row == REGIME_TRANSITIONS(r)
        hits == {k \in 1..4 : u < Cumulative(row, k)}
    IN  IF hits = {} THEN r
        ELSE RegimeOrder[CHOOSE k \in hits : \A j \in hits : k <= j]

\* an update that draws a transition on every tick
RegimeUpdateEveryTick(r, chk, u) ==
    [regime |-> NextRegime(r, u), check |-> 0, shifted |-> NextRegime(r, u) # r]

RegimeUpdate(r, chk, u) ==
    LET c == chk + 1 IN
    IF c < REGIME_CHECK_TICKS
    THEN [regime |-> r, check |-> c, shifted |-> FALSE]
    ELSE [regime |-> NextRegime(r, u), check |-> 0,
          shifted |-> NextRegime(r, u) # r]

-----------------------------------------------------------------------------
(* SimulationEngine._update_macro_variables *)

VIX_FLOOR == 1000   \* max(10.0, ...), in hundredths

\* a rate that moves by five times its distance from the target
MacroRateOvershoot(r, rate, rnoise) == rate + (TargetRate(r) - rate) * 5 + rnoise

\* rate += (target - rate) * 0.05 + (random() - 0.5) * 0.02
MacroRate(r, rate, rnoise) == rate + ((TargetRate(r) - rate) * 5) \div 100 + rnoise

\* a VIX that decays toward zero instead of the regime's base, unfloored
MacroVixUnanchored(r, v, spike, vnoise) == v - (v * 15) \div 100 + spike + vnoise

\* vix = max(10.0, vix - (vix - base) * 0.15 + spike + noise)
MacroVix(r, v, spike, vnoise) ==
    Max(VIX_FLOOR, v - ((v - VixBase(r)) * 15) \div 100 + spike + vnoise)

-----------------------------------------------------------------------------
(* StockPriceEngine.calculate_health_drift and update_all *)

HEALTH_MIN == 200000        \* max(0.2, ...)
HEALTH_MAX == 1200000       \* min(1.2, ...)
DISTRESS_HEALTH == 300000   \* stock.metabolic_health < 0.3
DISTRESS_PRICE == 200       \* new_price < 2.0
PRICE_FLOOR == 1            \* max(0.01, ...)
TRACKER_MAXLEN == 1460      \* performance_tracker = deque(maxlen=1460)

\* condition * 0.001 with condition = (20 - vix)/100 - interest_rate/200
HealthChange(v, rate) == ((2000 - v) * 200 - rate) \div 2000

HealthAfterDrift(h, v, rate) ==
    Max(HEALTH_MIN, Min(HEALTH_MAX, h + HealthChange(v, rate)))

\* the price step without its floor
SteppedPriceUnfloored(price, factor_pct) == (price * factor_pct) \div 100

\* new_price = max(0.01, stock.price * change); change = exp(drift + vol_term)
\* is the drawn factor, in percent
SteppedPrice(price, factor_pct) == Max(PRICE_FLOOR, (price * factor_pct) \div 100)

\* an append that never evicts
PushUnbounded(q, x, n) == Append(q, x)

\* deque(maxlen=n).append
PushBounded(q, x, n) ==
    IF Len(q) >= n THEN Append(Tail(q), x) ELSE Append(q, x)

\* config.loader.get_market_cap_tier, market cap in 1e3 dollars
get_market_cap_tier(cap) ==
    IF cap >= 200000000 THEN "MEGA_CAP"
    ELSE IF cap >= 10000000 THEN "LARGE_CAP"
    ELSE IF cap >= 2000000 THEN "MID_CAP"
    ELSE "SMALL_CAP"

\* one iteration of the loop of update_all on an active stock: factor_pct is
\* exp(drift + tick_vol * z), draw is random.random() < bankruptcy_prob
UpdateStock(s, v, rate, factor_pct, draw) ==
    LET h == HealthAfterDrift(s.metabolic_health, v, rate)
        new_price == SteppedPrice(s.price, factor_pct)
        goes == h < DISTRESS_HEALTH /\ new_price < DISTRESS_PRICE /\ draw
        cap == new_price * s.shares_outstanding
    IN  [s EXCEPT !.metabolic_health = h,
                  !.status = IF goes THEN "bankrupt" ELSE "active",
                  !.price = new_price,
                  !.current_market_cap = cap,
                  !.history = PushBounded(s.history, new_price, HISTORY_LENGTH),
                  !.perf_len = Min(TRACKER_MAXLEN, s.perf_len + 1),
                  !.market_cap_tier = get_market_cap_tier(cap)]

\* a sweep that does not skip bankrupt stocks
UpdateAllNoSkip(stks, v, rate, f, d) ==
    [i \in 1..Len(stks) |-> UpdateStock(stks[i], v, rate, f[i], d[i])]

UpdateAll(stks, v, rate, f, d) ==
    [i \in 1..Len(stks) |->
        IF stks[i].status = "bankrupt" THEN stks[i]
        ELSE UpdateStock(stks[i], v, rate, f[i], d[i])]

\* the log messages update_all returns: one Extinction per stock that went
\* bankrupt in this sweep, in list order
RECURSIVE ExtinctionLogs(_, _, _)
ExtinctionLogs(before, after, i) ==
    IF i > Len(before) THEN <<>>
    ELSE IF before[i].status = "active" /\ after[i].status = "bankrupt"
         THEN <<"Extinction">> \o ExtinctionLogs(before, after, i + 1)
         ELSE ExtinctionLogs(before, after, i + 1)

-----------------------------------------------------------------------------
(* StockPriceEngine.update_winner_status(stocks, market_avg_return) *)

tracking_window == 1460     \* tracking_window_cycles * 365 periods

\* o[i] is how stocks[i]'s return over the window compares with the market's:
\* "above" the escape threshold, "below" 0.8 of the market, or "between"
UpdateWinnerStatus(stks, o) ==
    [i \in 1..Len(stks) |->
        IF stks[i].status = "active" /\ stks[i].perf_len >= tracking_window
        THEN [stks[i] EXCEPT !.winner_status =
                 IF o[i] = "above" THEN "WINNER"
                 ELSE IF o[i] = "below" THEN "NORMAL"
                 ELSE @]
        ELSE stks[i]]

-----------------------------------------------------------------------------
(* IPOManager.process(stocks, regime) *)

IPO_PERIOD_TICKS == 20      \* if self.ticks_since_last_check < 20
IPO_MARKET_CAP == 50000000  \* current_market_cap=50e9, in 1e3 dollars
MAX_LISTED == 100           \* elif len(stocks) < 100

ActiveCount(stks) == Cardinality({i \in 1..Len(stks) : stks[i].status = "active"})
BankruptCount(stks) == Cardinality({i \in 1..Len(stks) : stks[i].status = "bankrupt"})

\* emergency_mode = active_count < (total_count * 0.1)
EmergencyMode(stks) == ActiveCount(stks) * 10 < Len(stks)

\* Stock(...) as process builds it: value is 50e9 + random() * 50e9; the
\* fields process does not pass keep the defaults of the dataclass
IPOStock(id, new_price, value) ==
    [id |-> id, price |-> new_price,
     shares_outstanding |-> value \div new_price,
     current_market_cap |-> IPO_MARKET_CAP,
     metabolic_health |-> 1000000,
     history |-> [k \in 1..HISTORY_LENGTH |-> new_price],
     status |-> "active",
     market_cap_tier |-> "SMALL_CAP",
     winner_status |-> "NORMAL",
     perf_len |-> 0]

\* the last bankrupt entry instead of the first
LastBankrupt(stks) ==
    CHOOSE i \in 1..Len(stks) :
        /\ stks[i].status = "bankrupt"
        /\ \A j \in (i + 1)..Len(stks) : stks[j].status # "bankrupt"

FirstBankrupt(stks) ==
    CHOOSE i \in 1..Len(stks) :
        /\ stks[i].status = "bankrupt"
        /\ \A j \in 1..(i - 1) : stks[j].status # "bankrupt"

\* regime == Regime.GROWTH or emergency_mode
IPOWindowOpen(r, stks) == r = "GROWTH" \/ EmergencyMode(stks)

\* a check that drops the bankrupt entries before it appends
ProcessCheckPruning(stks, r, counter, draw, new_price, value) ==
    LET emergency == EmergencyMode(stks)
        ipo == IPOStock(counter, new_price, value)
        alive(st) == st.status = "active"
    IN  IF IPOWindowOpen(r, stks) /\ (draw \/ emergency)
        THEN [stocks |-> Append(SelectSeq(stks, alive), ipo),
              counter |-> counter + 1,
              event |-> [emergency |-> emergency, id |-> counter]]
        ELSE [stocks |-> stks, counter |-> counter, event |-> "None"]

\* a check that appends whatever the length of the list
ProcessCheckNoCap(stks, r, counter, draw, new_price, value) ==
    LET emergency == EmergencyMode(stks)
        ipo == IPOStock(counter, new_price, value)
    IN  IF IPOWindowOpen(r, stks) /\ (draw \/ emergency)
        THEN IF BankruptCount(stks) > 0
             THEN [stocks |-> [stks EXCEPT ![FirstBankrupt(stks)] = ipo],
                   counter |-> counter + 1,
                   event |-> [emergency |-> emergency, id |-> counter]]
             ELSE [stocks |-> Append(stks, ipo),
                   counter |-> counter + 1,
                   event |-> [emergency |-> FALSE, id |-> counter]]
        ELSE [stocks |-> stks, counter |-> counter, event |-> "None"]

\* what process does once the period has elapsed: the stock list, the id
\* counter and the event returned.  draw is random.random() < 0.3
ProcessCheck(stks, r, counter, draw, new_price, value) ==
    LET emergency == EmergencyMode(stks)
        ipo == IPOStock(counter, new_price, value)
    IN  IF IPOWindowOpen(r, stks) /\ (draw \/ emergency)
        THEN IF BankruptCount(stks) > 0
             THEN [stocks |-> [stks EXCEPT ![FirstBankrupt(stks)] = ipo],
                   counter |-> counter + 1,
                   event |-> [emergency |-> emergency, id |-> counter]]
             ELSE IF Len(stks) < MAX_LISTED
             THEN [stocks |-> Append(stks, ipo),
                   counter |-> counter + 1,
                   event |-> [emergency |-> FALSE, id |-> counter]]
             ELSE [stocks |-> stks, counter |-> counter, event |-> "None"]
        ELSE [stocks |-> stks, counter |-> counter, event |-> "None"]

\* a period test that passes one call early
PeriodElapsedEarly(t) == t >= IPO_PERIOD_TICKS - 1

\* the negation of `self.ticks_since_last_check < 20`
PeriodElapsed(t) == t >= IPO_PERIOD_TICKS

\* a call of process with the two arguments it declares
Process(in) ==
    /\ ipo_stock_id_counter < in.ipos
    /\ IF ~PeriodElapsed(ipo_ticks_since_last_check + 1)
       THEN /\ ipo_ticks_since_last_check' = ipo_ticks_since_last_check + 1
            /\ ipo_event' = "None"
            /\ UNCHANGED <<stocks, ipo_stock_id_counter>>
       ELSE \E draw \in in.draws, new_price \in in.ipo_prices,
               extra \in in.ipo_extras :
              LET res == ProcessCheck(stocks, regime, ipo_stock_id_counter,
                                      draw, new_price, IPO_MARKET_CAP + extra)
              IN  /\ ipo_ticks_since_last_check' = 0
                  /\ stocks' = res.stocks
                  /\ ipo_stock_id_counter' = res.counter
                  /\ ipo_event' = res.event
    /\ UNCHANGED <<phase, time_in_phase, tick_count, regime,
                   rm_ticks_since_last_check, vix, interest_rate,
                   market_cap_history, logs, bankruptcy_count, ipo_count,
                   calls, exc, gap_calls, analytics, rand>>
    /\ snapshot' = <<>>
    /\ UNCHANGED netvars

-----------------------------------------------------------------------------
(* SimulationEngine.tick as the scheduler calls it.  Steps 1 to 4 run; the *)
(* call of step 5, ipo_manager.process(stocks, regime, market_state),      *)
(* passes three arguments to process(self, stocks, regime) and raises      *)
(* TypeError before the body of process runs, so steps 5 to 9 never run.   *)

\* the random draws a tick consumes; a draw the code does not make on this
\* tick (no reopening, a bankrupt stock, a stock not in distress) is fixed
GapDraws(in) ==
    IF phase = "CLOSED" /\ CloseWindowOver(time_in_phase + 1)
    THEN {g \in [1..Len(stocks) -> in.gaps \cup {0}] :
            \A i \in 1..Len(stocks) :
                g[i] = 0 <=> stocks[i].status = "bankrupt"}
    ELSE {[i \in 1..Len(stocks) |-> 0]}

FactorDraws(in) ==
    {f \in [1..Len(stocks) -> in.factors \cup {100}] :
        \A i \in 1..Len(stocks) :
            stocks[i].status = "bankrupt" => f[i] = 100}

BankruptcyDraws(in, stks, v, rate, f) ==
    {d \in [1..Len(stks) -> in.draws \cup {FALSE}] :
        \A i \in 1..Len(stks) :
            d[i] => /\ stks[i].status = "active"
                    /\ HealthAfterDrift(stks[i].metabolic_health, v, rate)
                         < DISTRESS_HEALTH
                    /\ SteppedPrice(stks[i].price, f[i]) < DISTRESS_PRICE}

TickBody(in) ==
    /\ calls < in.horizon
    /\ \E u \in in.us, spike \in in.spikes, vnoise \in in.vnoises,
          rnoise \in in.rnoises, g \in GapDraws(in), f \in FactorDraws(in) :
        LET p == UpdatePhase(phase, time_in_phase, stocks, logs, g, tick_count)
            rg == RegimeUpdate(regime, rm_ticks_since_last_check, u)
            lg2 == IF rg.shifted
                   THEN AddLog(p.logs, "Regime Shift", "error", tick_count)
                   ELSE p.logs
            rate2 == MacroRate(rg.regime, interest_rate, rnoise)
            vix2 == MacroVix(rg.regime, vix, spike, vnoise)
        IN  \E d \in BankruptcyDraws(in, p.stocks, vix2, rate2, f) :
            LET swept == UpdateAll(p.stocks, vix2, rate2, f, d)
                ext == ExtinctionLogs(p.stocks, swept, 1)
            IN  /\ phase' = p.phase
                /\ time_in_phase' = p.time_in_phase
                /\ regime' = rg.regime
                /\ rm_ticks_since_last_check' = rg.check
                /\ rand' = IF rg.check = 0 THEN <<u>> ELSE <<>>
                /\ interest_rate' = rate2
                /\ vix' = vix2
                /\ stocks' = swept
                /\ bankruptcy_count' = bankruptcy_count + Len(ext)
                /\ logs' = AddLogs(lg2, ext, "error", tick_count)
    /\ calls' = calls + 1
    /\ exc' = "TypeError"
    /\ snapshot' = <<>>
    /\ UNCHANGED <<tick_count, market_cap_history, ipo_count,
                   ipo_ticks_since_last_check, ipo_stock_id_counter, ipo_event,
                   gap_calls, analytics>>

\* tick() awaited on its own, outside simulation_loop
Tick(in) == TickBody(in) /\ UNCHANGED netvars

-----------------------------------------------------------------------------
(* SimulationEngine._calculate_period_return and get_frontend_snapshot.    *)
(* An Optional[float] is <<>> for None and <<x>> for the number x; returns  *)
(* are in hundredths of a percent.                                         *)

\* a return measured from the sample `period - 1` positions before the last
CalculatePeriodReturnShort(h, period) ==
    IF Len(h) <= period THEN <<>>
    ELSE LET current_cap == h[Len(h)]
             past_cap == h[Len(h) - period + 1]
         IN  IF past_cap = 0 THEN <<>>
             ELSE <<((current_cap - past_cap) * 10000) \div past_cap>>

\* market_cap_history[-1] is h[Len(h)], market_cap_history[-(period + 1)]
\* is h[Len(h) - period]
CalculatePeriodReturn(h, period) ==
    IF Len(h) <= period THEN <<>>
    ELSE LET current_cap == h[Len(h)]
             past_cap == h[Len(h) - period]
         IN  IF past_cap = 0 THEN <<>>
             ELSE <<((current_cap - past_cap) * 10000) \div past_cap>>

\* self.logs[-5:]
LastLogs(lg) == SubSeq(lg, Max(1, Len(lg) - 4), Len(lg))

TICKS_PER_CYCLE == 7300

\* round(x, 2) of x = 100 * num / den with den > 0, in hundredths: the
\* nearest hundredth
Round2(num, den) == (2 * num * 10000 + den) \div (2 * den)

\* CycleAnalytics._calculate_return, in hundredths of a percent
CalculateReturn(h, periods) ==
    IF Len(h) <= periods THEN <<>>
    ELSE LET current_cap == h[Len(h)]
             past_cap == h[Len(h) - periods]
         IN  IF past_cap = 0 THEN <<>>
             ELSE <<Round2(current_cap - past_cap, past_cap)>>

\* CycleAnalytics._calculate_cycle_stats, without the statistics of the
\* sampled values (of the sample lists the model keeps the length)
CalculateCycleStats(a, ipos, bankruptcies, end_tick, is_complete) ==
    [cycle_number |-> a.current_cycle_number,
     start_tick |-> a.current_cycle_start_tick,
     end_tick |-> end_tick,
     is_complete |-> is_complete,
     samples |-> a.n_samples,
     ipo_count |-> ipos,
     bankruptcy_count |-> bankruptcies,
     regime_transitions |-> a.regime_transition_count,
     regime_ticks |-> a.regime_ticks,
     return_60t |-> CalculateReturn(a.market_cap_history, 60),
     return_180t |-> CalculateReturn(a.market_cap_history, 180),
     return_365t |-> CalculateReturn(a.market_cap_history, 365)]

RECURSIVE SumOver(_, _)
\* sum(c.<field> for c in cycles)
SumOver(cycles, field) ==
    IF cycles = <<>> THEN 0
    ELSE cycles[1][field] + SumOver(Tail(cycles), field)

\* CycleAnalytics.get_analytics_snapshot: the current cycle is part of the
\* record and of the totals only `if self.company_counts`
GetAnalyticsSnapshot(a, ipos, bankruptcies, current_tick) ==
    LET current_partial ==
            IF a.n_samples > 0
            THEN <<CalculateCycleStats(a, ipos, bankruptcies,
                                       current_tick, FALSE)>>
            ELSE <<>>
        all_cycles == a.completed_cycles \o current_partial
    IN  [completed_cycles |-> a.completed_cycles,
         current_cycle |-> current_partial,
         summary |->
            [total_completed_cycles |-> Len(a.completed_cycles),
             total_ipos |-> SumOver(all_cycles, "ipo_count"),
             total_bankruptcies |-> SumOver(all_cycles, "bankruptcy_count"),
             current_cycle_ticks |-> current_tick - a.current_cycle_start_tick]]

MaxSnapshots == 2

\* the dict get_frontend_snapshot() returns
FrontendSnapshot ==
    [stocks |-> stocks,
     market_state |-> [vix |-> vix, interest_rate |-> interest_rate,
                       phase |-> phase],
     regime |-> regime,
     time |-> time_in_phase,
     phase |-> phase,
     period_returns |->
        [return60 |-> CalculatePeriodReturn(market_cap_history, 60),
         return180 |-> CalculatePeriodReturn(market_cap_history, 180),
         return365 |-> CalculatePeriodReturn(market_cap_history, 365)],
     logs |-> LastLogs(logs),
     analytics |-> GetAnalyticsSnapshot(analytics, ipo_count,
                                        bankruptcy_count, tick_count)]

\* a call that also writes a line to the log ring
GetFrontendSnapshotLogging ==
    /\ Len(snapshot) < MaxSnapshots
    /\ snapshot' = Append(snapshot, FrontendSnapshot)
    /\ logs' = AddLog(logs, "Snapshot", "INFO", tick_count)
    /\ UNCHANGED <<phase, time_in_phase, tick_count, regime,
                   rm_ticks_since_last_check, vix, interest_rate, stocks,
                   market_cap_history, bankruptcy_count, ipo_count,
                   ipo_ticks_since_last_check, ipo_stock_id_counter,
                   ipo_event, calls, exc, gap_calls, analytics, rand>>
    /\ UNCHANGED netvars

GetFrontendSnapshot ==
    /\ Len(snapshot) < MaxSnapshots
    /\ snapshot' = Append(snapshot, FrontendSnapshot)
    /\ UNCHANGED <<phase, time_in_phase, tick_count, regime,
                   rm_ticks_since_last_check, vix, interest_rate, stocks,
                   market_cap_history, logs, bankruptcy_count, ipo_count,
                   ipo_ticks_since_last_check, ipo_stock_id_counter,
                   ipo_event, calls, exc, gap_calls, analytics, rand>>
    /\ UNCHANGED netvars

-----------------------------------------------------------------------------
(* SimulationEngine.__init__ *)

NewStock(id, price, shares) ==
    [id |-> id, price |-> price, shares_outstanding |-> shares,
     current_market_cap |-> price * shares,
     metabolic_health |-> 1000000,
     history |-> [k \in 1..HISTORY_LENGTH |-> price],
     status |-> "active",
     market_cap_tier |-> get_market_cap_tier(price * shares),
     winner_status |-> "NORMAL",
     perf_len |-> 1]

InitStocks == 2             \* stocks seeded at construction
InitPrices == {150, 10000}  \* log_normal_random(4.605, 0.5), in cents
InitShares == {1000}        \* base_cap / initial_price

Init ==
    /\ phase = "TRADING"
    /\ time_in_phase = 0
    /\ tick_count = 0
    /\ regime = "GROWTH"
    /\ rm_ticks_since_last_check = 0
    /\ vix = 1550
    /\ interest_rate = 12500
    /\ \E pr \in [1..InitStocks -> InitPrices], sh \in [1..InitStocks -> InitShares] :
          stocks = [i \in 1..InitStocks |-> NewStock(i - 1, pr[i], sh[i])]
    /\ market_cap_history = <<>>
    /\ logs = <<>>
    /\ bankruptcy_count = 0
    /\ ipo_count = 0
    /\ ipo_ticks_since_last_check = 0
    /\ ipo_stock_id_counter = 0
    /\ ipo_event = "None"
    /\ calls = 0
    /\ exc = "none"
    /\ gap_calls = 0
    /\ snapshot = <<>>
    /\ analytics = AnalyticsFresh
    /\ rand = <<>>
    /\ NetIdle

MaxCalls == 41

\* the draws explored by Spec: regime draws that stay and that leave, a
\* quiet VIX, unchanged prices, an upward gap
Scheduled ==
    [horizon |-> MaxCalls, us |-> {500, 995}, spikes |-> {0}, vnoises |-> {0},
     rnoises |-> {0}, factors |-> {100}, gaps |-> {50}, draws |-> {FALSE},
     ipos |-> 0, ipo_prices |-> {}, ipo_extras |-> {}]

Next == Tick(Scheduled)

Spec == Init /\ [][Next]_vars

-----------------------------------------------------------------------------
(* The engine in the middle of a run.  Health moves by at most a few 1e-4   *)
(* per tick and a price by a few percent, so distress, bankruptcy and the   *)
(* price floors lie thousands of ticks after construction: InitRun starts   *)
(* from states such a run passes through, two ticks before the market      *)
(* reopens.                                                                *)

RunMacro ==
    {[regime |-> "GROWTH", vix |-> 1550, interest_rate |-> 12500],
     [regime |-> "GROWTH", vix |-> 3000, interest_rate |-> 12500],
     [regime |-> "CRISIS", vix |-> 3500, interest_rate |-> 47500]}
\* a stock about to be in distress and a sound one
RunProfiles ==
    {[price |-> 5, health |-> 300100], [price |-> 10000, health |-> 1000000]}

RunStock(id, price, shares, health) ==
    [NewStock(id, price, shares) EXCEPT !.metabolic_health = health,
                                        !.perf_len = TRACKER_MAXLEN]

InitRun ==
    /\ phase = "CLOSED"
    /\ time_in_phase = 6
    /\ tick_count = 0
    /\ rm_ticks_since_last_check = 3
    /\ \E m \in RunMacro :
          regime = m.regime /\ vix = m.vix /\ interest_rate = m.interest_rate
    /\ \E pf \in [1..InitStocks -> RunProfiles] :
          stocks = [i \in 1..InitStocks |->
                      RunStock(i - 1, pf[i].price, 1000, pf[i].health)]
    /\ market_cap_history = <<>>
    /\ logs = <<>>
    /\ bankruptcy_count = 0
    /\ ipo_count = 0
    /\ ipo_ticks_since_last_check = 18
    /\ ipo_stock_id_counter = 0
    /\ ipo_event = "None"
    /\ calls = 0
    /\ exc = "none"
    /\ gap_calls = 0
    /\ snapshot = <<>>
    /\ analytics = AnalyticsFresh
    /\ rand = <<>>
    /\ NetIdle

RunTicks == 2
MaxIPOs == 1

\* the draws explored from InitRun: a price that holds or collapses, either
\* bankruptcy draw for a stock in distress, a gap down or up
Stressed ==
    [horizon |-> RunTicks, us |-> {500}, spikes |-> {0}, vnoises |-> {0},
     rnoises |-> {0}, factors |-> {1, 100}, gaps |-> {-200, 50},
     draws |-> {TRUE, FALSE}, ipos |-> 0, ipo_prices |-> {}, ipo_extras |-> {}]

\* the engine as wired
NextRun == Tick(Stressed)
SpecRun == InitRun /\ [][NextRun]_vars

\* the draws explored around the IPO check and the winner refresh: prices
\* hold, a stock in distress may go bankrupt
Listing ==
    [horizon |-> RunTicks, us |-> {500}, spikes |-> {0}, vnoises |-> {0},
     rnoises |-> {0}, factors |-> {100}, gaps |-> {50},
     draws |-> {TRUE, FALSE}, ipos |-> MaxIPOs, ipo_prices |-> {8000, 10000},
     ipo_extras |-> {0, 25000000}]

WinnerRefresh ==
    /\ \E o \in [1..Len(stocks) -> {"above", "between", "below"}] :
          stocks' = UpdateWinnerStatus(stocks, o)
    /\ UNCHANGED <<phase, time_in_phase, tick_count, regime,
                   rm_ticks_since_last_check, vix, interest_rate,
                   market_cap_history, logs, bankruptcy_count, ipo_count,
                   ipo_ticks_since_last_check, ipo_stock_id_counter,
                   ipo_event, calls, exc, gap_calls, analytics, rand>>
    /\ snapshot' = <<>>
    /\ UNCHANGED netvars

\* the engine as wired, with update_winner_status called on its own
NextWinner == Tick(Listing) \/ WinnerRefresh
SpecWinner == InitRun /\ [][NextWinner]_vars

\* the engine as wired, with IPOManager.process called as it is declared
NextIPO == Tick(Listing) \/ Process(Listing)
SpecIPO == InitRun /\ [][NextIPO]_vars

\* the engine as wired, started with a stock forced to price 0.1 and health 0
ForcedProfiles == {[price |-> 10, health |-> 0]} \cup RunProfiles

InitForced ==
    /\ phase = "CLOSED"
    /\ time_in_phase = 6
    /\ tick_count = 0
    /\ rm_ticks_since_last_check = 3
    /\ \E m \in RunMacro :
          regime = m.regime /\ vix = m.vix /\ interest_rate = m.interest_rate
    /\ \E pf \in [1..InitStocks -> ForcedProfiles] :
          /\ \E i \in 1..InitStocks : pf[i].health = 0
          /\ stocks = [i \in 1..InitStocks |->
                         RunStock(i - 1, pf[i].price, 1000, pf[i].health)]
    /\ market_cap_history = <<>>
    /\ logs = <<>>
    /\ bankruptcy_count = 0
    /\ ipo_count = 0
    /\ ipo_ticks_since_last_check = 18
    /\ ipo_stock_id_counter = 0
    /\ ipo_event = "None"
    /\ calls = 0
    /\ exc = "none"
    /\ gap_calls = 0
    /\ snapshot = <<>>
    /\ analytics = AnalyticsFresh
    /\ rand = <<>>
    /\ NetIdle

SpecForced == InitForced /\ [][NextRun]_vars

-----------------------------------------------------------------------------
(* A nearly full listing.  _generate_initial_stocks seeds 2 or 3 stocks for *)
(* each of the 33 sub-industries of SECTORS, 66 to 99 stocks.              *)

CrowdedStocks == 98
CapIPOs == 13

\* a stock that went bankrupt earlier in the run
Tombstone(id) ==
    [RunStock(id, 150, 1000, 299000) EXCEPT !.status = "bankrupt"]

\* n listed stocks, the second of them bankrupt when b = 1
CrowdedList(n, b) ==
    [i \in 1..n |-> IF b = 1 /\ i = 2 THEN Tombstone(i - 1)
                    ELSE RunStock(i - 1, 10000, 1000, 1000000)]

\* the engine in the middle of a run with the macro state m and the stock
\* list stks, in the phase ph with the clock at tip
MidRun(ph, tip, m, stks) ==
    /\ phase = ph
    /\ time_in_phase = tip
    /\ tick_count = 0
    /\ rm_ticks_since_last_check = 3
    /\ regime = m.regime /\ vix = m.vix /\ interest_rate = m.interest_rate
    /\ stocks = stks
    /\ market_cap_history = <<>>
    /\ logs = <<>>
    /\ bankruptcy_count = 0
    /\ ipo_count = 0
    /\ ipo_ticks_since_last_check = 18
    /\ ipo_stock_id_counter = 0
    /\ ipo_event = "None"
    /\ calls = 0
    /\ exc = "none"
    /\ gap_calls = 0
    /\ snapshot = <<>>
    /\ analytics = AnalyticsFresh
    /\ rand = <<>>
    /\ NetIdle

InitCap ==
    \E m \in RunMacro, n \in {CrowdedStocks, CrowdedStocks + 1}, b \in {0, 1} :
        MidRun("TRADING", 0, m, CrowdedList(n, b))

\* the draws explored on a nearly full listing: either admission draw, one
\* IPO price
Crowded ==
    [horizon |-> 0, us |-> {500}, spikes |-> {0}, vnoises |-> {0},
     rnoises |-> {0}, factors |-> {100}, gaps |-> {50},
     draws |-> {TRUE, FALSE}, ipos |-> CapIPOs, ipo_prices |-> {10000},
     ipo_extras |-> {0}]

\* IPOManager.process called as it is declared, over and over
NextCap == Process(Crowded)
SpecCap == InitCap /\ [][NextCap]_vars

-----------------------------------------------------------------------------
(* _apply_gap_pricing called on its own, on the tick before the market     *)
(* reopens.                                                                *)

GapCalls == 2

\* a stock below the gap floor, a sound one, a bankrupt one
GapLists ==
    {[i \in 1..InitStocks |->
        IF k[i] = "dead" THEN Tombstone(i - 1)
        ELSE RunStock(i - 1, IF k[i] = "low" THEN 5 ELSE 10000, 1000,
                      IF k[i] = "low" THEN 300100 ELSE 1000000)] :
     k \in [1..InitStocks -> {"low", "sound", "dead"}]}

InitGap ==
    \E stks \in GapLists :
        MidRun("CLOSED", 7,
               [regime |-> "GROWTH", vix |-> 1550, interest_rate |-> 12500],
               stks)

\* the gap drawn for each active stock: direction * (0.005 + random() * 0.015)
GapMagnitudes == {-200, -50, 50, 200}

ApplyGap ==
    /\ gap_calls < GapCalls
    /\ \E g \in [1..Len(stocks) -> GapMagnitudes \cup {0}] :
          /\ \A i \in 1..Len(stocks) :
                g[i] = 0 <=> stocks[i].status = "bankrupt"
          /\ stocks' = ApplyGapPricing(stocks, g)
    /\ gap_calls' = gap_calls + 1
    /\ UNCHANGED <<phase, time_in_phase, tick_count, regime,
                   rm_ticks_since_last_check, vix, interest_rate,
                   market_cap_history, logs, bankruptcy_count, ipo_count,
                   ipo_ticks_since_last_check, ipo_stock_id_counter,
                   ipo_event, calls, exc, analytics, rand>>
    /\ snapshot' = <<>>
    /\ UNCHANGED netvars

NextGap == ApplyGap
SpecGap == InitGap /\ [][NextGap]_vars

-----------------------------------------------------------------------------
(* The macro variables under every regime, from a VIX near its floor and    *)
(* from a VIX after a spike.                                               *)

MacroStates ==
    {[regime |-> r, vix |-> v, interest_rate |-> 12500] :
        r \in Regimes, v \in {1010, 6000}}

InitMacro ==
    \E m \in MacroStates :
        MidRun("TRADING", 0, m,
               [i \in 1..InitStocks |-> RunStock(i - 1, 10000, 1000, 1000000)])

\* the draws explored for the macro variables: a regime draw that stays and
\* one that leaves, no spike or the largest one (15 + 25), the two ends of
\* the noise (random() - 0.5) * 1.5
Noisy ==
    [horizon |-> RunTicks, us |-> {500, 999}, spikes |-> {0, 4000},
     vnoises |-> {-75, 74}, rnoises |-> {0}, factors |-> {100}, gaps |-> {50},
     draws |-> {FALSE}, ipos |-> 0, ipo_prices |-> {}, ipo_extras |-> {}]

NextMacro == Tick(Noisy)
SpecMacro == InitMacro /\ [][NextMacro]_vars

-----------------------------------------------------------------------------
(* The regime check under every regime, for draws around every threshold.  *)

InitRegime ==
    \E r \in Regimes :
        MidRun("TRADING", 0,
               [regime |-> r, vix |-> VixBase(r), interest_rate |-> TargetRate(r)],
               [i \in 1..InitStocks |-> RunStock(i - 1, 10000, 1000, 1000000)])

\* random.random() in [0, 1), in thousandths: the draws at both ends, which
\* lie on either side of every cumulative mass of every row, and one in
\* the middle
UniformDraws == (0..12) \cup {500} \cup (985..999)

EveryDraw ==
    [horizon |-> RunTicks, us |-> UniformDraws, spikes |-> {0}, vnoises |-> {0},
     rnoises |-> {0}, factors |-> {100}, gaps |-> {50}, draws |-> {FALSE},
     ipos |-> 0, ipo_prices |-> {}, ipo_extras |-> {}]

NextRegimeCheck == Tick(EveryDraw)
SpecRegime == InitRegime /\ [][NextRegimeCheck]_vars

-----------------------------------------------------------------------------
(* The interest rate under every regime, from the rates a run settles at   *)
(* and from the lowest a run comes near: 0.75 - 0.01 / 0.05 = 0.55 under    *)
(* GROWTH with the noise at its lower end on every tick.                   *)

RateStates ==
    {[regime |-> r, vix |-> VixBase(r), interest_rate |-> x] :
        r \in Regimes, x \in {5600, 12500, 47500}}

InitRate ==
    \E m \in RateStates :
        MidRun("TRADING", 0, m,
               [i \in 1..InitStocks |-> RunStock(i - 1, 10000, 1000, 1000000)])

\* the draws explored for the rate: a regime draw that stays and one that
\* leaves, the two ends and the middle of the noise (random() - 0.5) * 0.02
RateNoise ==
    [horizon |-> RunTicks, us |-> {500, 999}, spikes |-> {0}, vnoises |-> {0},
     rnoises |-> {-100, 0, 99}, factors |-> {100}, gaps |-> {50},
     draws |-> {FALSE}, ipos |-> 0, ipo_prices |-> {}, ipo_extras |-> {}]

NextRate == Tick(RateNoise)
SpecRate == InitRate /\ [][NextRate]_vars

-----------------------------------------------------------------------------
(* get_frontend_snapshot over market-cap histories of the lengths around    *)
(* the three periods.  A sample is 0 when every stock was bankrupt on that  *)
(* tick; the first sample, taken with the seeded stocks, never is.         *)

HistoryLengths == {0, 60, 61, 62, 180, 181, 182, 365, 366, 367}

\* n samples that start at 1e9 and move by slope per tick, with a single 0
\* sample dip positions before the last when dip > 0
CapHistory(n, slope, dip) ==
    [k \in 1..n |-> IF dip > 0 /\ k = n - dip /\ k >= 2 THEN 0
                    ELSE 1000000 + slope * k]

InitSnapshot ==
    /\ phase = "TRADING"
    /\ time_in_phase = 0
    /\ regime = "GROWTH"
    /\ rm_ticks_since_last_check = 0
    /\ vix = 1550
    /\ interest_rate = 12500
    /\ stocks = [i \in 1..InitStocks |-> RunStock(i - 1, 10000, 1000, 1000000)]
    /\ \E n \in HistoryLengths, slope \in {-100, 0, 250},
          dip \in {0, 60, 180, 365} :
          /\ market_cap_history = CapHistory(n, slope, dip)
          /\ tick_count = n
    /\ logs = <<>>
    /\ bankruptcy_count = 0
    /\ ipo_count = 0
    /\ ipo_ticks_since_last_check = 0
    /\ ipo_stock_id_counter = 0
    /\ ipo_event = "None"
    /\ calls = 0
    /\ exc = "none"
    /\ gap_calls = 0
    /\ snapshot = <<>>
    /\ analytics = AnalyticsFresh
    /\ rand = <<>>
    /\ NetIdle

NextSnapshot == GetFrontendSnapshot
SpecSnapshot == InitSnapshot /\ [][NextSnapshot]_vars

-----------------------------------------------------------------------------
(* Snapshots taken between ticks of the engine as it is wired. *)

NextObserved == Tick(Stressed) \/ GetFrontendSnapshot
SpecObserved == InitRun /\ [][NextObserved]_vars

-----------------------------------------------------------------------------
(* The engine as wired around its 7300th tick: two calls of tick() before  *)
(* the call that would pass tick 7300 to the analytics.  Every call so far *)
(* has raised at step 5, so tick_count, the IPO counters and the analytics *)
(* are as constructed; the phase clock and the regime counter have run.    *)

InitLate ==
    /\ phase = "CLOSED"
    /\ time_in_phase = 6
    /\ tick_count = 0
    /\ rm_ticks_since_last_check = 3
    /\ \E m \in RunMacro :
          regime = m.regime /\ vix = m.vix /\ interest_rate = m.interest_rate
    /\ \E pf \in [1..InitStocks -> RunProfiles] :
          stocks = [i \in 1..InitStocks |->
                      RunStock(i - 1, pf[i].price, 1000, pf[i].health)]
    /\ market_cap_history = <<>>
    /\ logs = <<>>
    /\ bankruptcy_count = 0
    /\ ipo_count = 0
    /\ ipo_ticks_since_last_check = 0
    /\ ipo_stock_id_counter = 0
    /\ ipo_event = "None"
    /\ calls = TICKS_PER_CYCLE - 2
    /\ exc = "TypeError"
    /\ gap_calls = 0
    /\ snapshot = <<>>
    /\ analytics = AnalyticsFresh
    /\ rand = <<>>
    /\ NetIdle

\* the draws of Stressed, up to the call after tick 7300
Late == [Stressed EXCEPT !.horizon = TICKS_PER_CYCLE + 1]

NextLate == Tick(Late)
SpecLate == InitLate /\ [][NextLate]_vars

-----------------------------------------------------------------------------
(* main.py: simulation_loop, lifespan and websocket_endpoint;              *)
(* api/websocket.py: ConnectionManager.  Each action runs one coroutine    *)
(* from one suspension point (an await that can yield) to the next.        *)

\* the fields of the engine and of its callers' bookkeeping
engine == <<phase, time_in_phase, tick_count, regime,
            rm_ticks_since_last_check, vix, interest_rate, stocks,
            market_cap_history, logs, bankruptcy_count, ipo_count,
            ipo_ticks_since_last_check, ipo_stock_id_counter, ipo_event,
            calls, exc, gap_calls, snapshot, analytics, rand>>

Members(seq) == {seq[j] : j \in 1..Len(seq)}

\* ConnectionManager.disconnect
Disconnect(ac, c) == SelectSeq(ac, LAMBDA x : x # c)

RECURSIVE DisconnectAll(_, _)
\* for conn in disconnected: self.disconnect(conn)
DisconnectAll(ac, cs) ==
    IF cs = <<>> THEN ac
    ELSE DisconnectAll(Disconnect(ac, Head(cs)), Tail(cs))

RECURSIVE BroadcastRun(_, _, _, _, _, _)
\* ConnectionManager.broadcast from iterator position i up to the next send
\* that suspends, or through the clean-up when the live list is exhausted
\* (the record of a finished call keeps the connections whose send failed).
\* A send on a connection whose peer is gone raises at once, the exception
\* is caught and the loop goes on.
BroadcastRun(ac, sk, i, disc, sent, listed) ==
    IF i > Len(ac)
    THEN [bcast |-> [BroadcastIdle EXCEPT !.disconnected = disc],
          active |-> DisconnectAll(ac, disc),
          sockets |-> sk]
    ELSE LET c == ac[i]
         IN  IF sk[c].peer = "gone"
             THEN BroadcastRun(ac, sk, i + 1, Append(disc, c), Append(sent, c),
                               listed)
             ELSE [bcast |-> [pc |-> "sending", i |-> i + 1, conn |-> c,
                              disconnected |-> disc, sent |-> Append(sent, c),
                              listed |-> listed],
                   active |-> ac,
                   sockets |-> [sk EXCEPT ![c].wire = Append(@, "update")]]

\* the loop at an await of asyncio.sleep, or not started yet
Wakeable == {"start", "sleep", "error_sleep"}

\* an exception of tick() that leaves simulation_loop
AfterTickRaisesUncaught == "crashed"

\* except Exception: log, then await asyncio.sleep(0.5)
AfterTickRaises == "error_sleep"

\* simulation_loop wakes and awaits simulation.tick(), which raises
LoopTickRaises(in) ==
    /\ loop.pc \in Wakeable
    /\ TickBody(in)
    /\ loop' = [loop EXCEPT !.pc = AfterTickRaises]
    /\ UNCHANGED <<active_connections, sockets, bcast>>

MaxLoopTicks == 2

\* simulation_loop wakes and simulation.tick() returns: count the tick,
\* broadcast on every second one, then sleep
LoopTickReturns ==
    /\ loop.pc \in Wakeable
    /\ loop.tick_counter < MaxLoopTicks
    /\ LET n == loop.tick_counter + 1
           r == BroadcastRun(active_connections, sockets, 1, <<>>, <<>>,
                             Members(active_connections))
       IN  IF n % 2 = 0
           THEN /\ loop' = [loop EXCEPT
                              !.pc = IF r.bcast.pc = "idle" THEN "sleep"
                                     ELSE "broadcast",
                              !.tick_counter = n,
                              !.broadcasts = @ + 1]
                /\ bcast' = r.bcast
                /\ active_connections' = r.active
                /\ sockets' = r.sockets
           ELSE /\ loop' = [loop EXCEPT !.pc = "sleep", !.tick_counter = n]
                /\ UNCHANGED <<active_connections, sockets, bcast>>
    /\ UNCHANGED engine

\* the send_json that broadcast awaits returns, which it does once the
\* transport has room for the message: a client that reads slowly or not at
\* all delays this step for as long as it likes
SendCompletes ==
    /\ loop.pc = "broadcast"
    /\ LET r == BroadcastRun(active_connections, sockets, bcast.i,
                             bcast.disconnected, bcast.sent, bcast.listed)
       IN  /\ loop' = [loop EXCEPT !.pc = IF r.bcast.pc = "idle" THEN "sleep"
                                          ELSE "broadcast"]
           /\ bcast' = r.bcast
           /\ active_connections' = r.active
           /\ sockets' = r.sockets
    /\ UNCHANGED engine

\* the send_json that broadcast awaits raises
SendFails ==
    /\ loop.pc = "broadcast"
    /\ sockets[bcast.conn].peer = "gone"
    /\ LET r == BroadcastRun(active_connections, sockets, bcast.i,
                             Append(bcast.disconnected, bcast.conn),
                             bcast.sent, bcast.listed)
       IN  /\ loop' = [loop EXCEPT !.pc = IF r.bcast.pc = "idle" THEN "sleep"
                                          ELSE "broadcast"]
           /\ bcast' = r.bcast
           /\ active_connections' = r.active
           /\ sockets' = r.sockets
    /\ UNCHANGED engine

\* a CancelledError caught like an Exception
CancelSwallowed(pc) == "error_sleep"

\* CancelledError is a BaseException: neither `except Exception` catches it
CancelOutcome(pc) == "cancelled"

\* lifespan: simulation_task.cancel(); the CancelledError is thrown into the
\* task at the await it is suspended in
Cancel ==
    /\ ~loop.cancelled
    /\ loop.pc \in Wakeable \cup {"broadcast"}
    /\ loop' = [loop EXCEPT !.pc = CancelOutcome(loop.pc), !.cancelled = TRUE]
    /\ bcast' = BroadcastIdle
    /\ UNCHANGED <<active_connections, sockets>>
    /\ UNCHANGED engine

\* a client opens the socket: websocket_endpoint awaits websocket.accept().
\* The connections are numbered in the order in which they are opened.
ClientConnects(c) ==
    /\ sockets[c].handler = "new"
    /\ \A d \in 1..(c - 1) : sockets[d].handler # "new"
    /\ sockets' = [sockets EXCEPT ![c].handler = "accepting"]
    /\ UNCHANGED <<loop, active_connections, bcast>>
    /\ UNCHANGED engine

\* a message of type 'update'
InitialMessageTypeUpdate == "update"

\* 'type': 'initial'
InitialMessageType == "initial"

\* accept() returns: connect appends the socket, the handler takes a
\* snapshot and awaits the send of the initial message
Accepted(c) ==
    /\ sockets[c].handler = "accepting"
    /\ sockets[c].peer = "open"
    /\ active_connections' = Append(active_connections, c)
    /\ sockets' = [sockets EXCEPT ![c].handler = "initial",
                                  ![c].wire = Append(@, InitialMessageType)]
    /\ UNCHANGED <<loop, bcast>>
    /\ UNCHANGED engine

\* the initial send returns: the handler awaits receive_text()
InitialSent(c) ==
    /\ sockets[c].handler = "initial"
    /\ sockets' = [sockets EXCEPT ![c].handler = "receiving"]
    /\ UNCHANGED <<loop, active_connections, bcast>>
    /\ UNCHANGED engine

\* the initial send raises: WebSocketDisconnect is caught and the socket
\* removed, any other exception ends the handler with the socket listed
InitialFails(c) ==
    /\ sockets[c].handler = "initial"
    /\ sockets[c].peer = "gone"
    /\ sockets' = [sockets EXCEPT ![c].handler = "closed"]
    /\ \E caught \in BOOLEAN :
          active_connections' = IF caught THEN Disconnect(active_connections, c)
                                ELSE active_connections
    /\ UNCHANGED <<loop, bcast>>
    /\ UNCHANGED engine

\* receive_text() raises WebSocketDisconnect: manager.disconnect(websocket)
ReceiveFails(c) ==
    /\ sockets[c].handler = "receiving"
    /\ sockets[c].peer = "gone"
    /\ sockets' = [sockets EXCEPT ![c].handler = "closed"]
    /\ active_connections' = Disconnect(active_connections, c)
    /\ UNCHANGED <<loop, bcast>>
    /\ UNCHANGED engine

\* the client drops the connection it has opened
ClientGoes(c) ==
    /\ sockets[c].handler \in {"initial", "receiving"}
    /\ sockets[c].peer = "open"
    /\ sockets' = [sockets EXCEPT ![c].peer = "gone"]
    /\ UNCHANGED <<loop, active_connections, bcast>>
    /\ UNCHANGED engine

\* the scheduler with the engine as wired: every tick() raises
NextSched == LoopTickRaises(Scheduled) \/ Cancel
SpecSched == Init /\ [][NextSched]_vars

\* asyncio.sleep returns after its delay, so a loop that is not cancelled
\* goes on to its next tick
SpecSchedFair ==
    Init /\ [][NextSched]_vars /\ WF_vars(LoopTickRaises(Scheduled))

LoopCalls == 1

\* one tick() that raises, with quiet draws
Quiet ==
    [horizon |-> LoopCalls, us |-> {500}, spikes |-> {0}, vnoises |-> {0},
     rnoises |-> {0}, factors |-> {100}, gaps |-> {50}, draws |-> {FALSE},
     ipos |-> 0, ipo_prices |-> {}, ipo_extras |-> {}]

\* the scheduler with ticks that return, the connection manager and the
\* connection handlers
NextLoop ==
    \/ LoopTickReturns
    \/ SendCompletes
    \/ SendFails
    \/ \E c \in Sockets :
          \/ ClientConnects(c)
          \/ Accepted(c)
          \/ InitialSent(c)
          \/ InitialFails(c)
          \/ ReceiveFails(c)
          \/ ClientGoes(c)
SpecLoop == Init /\ [][NextLoop]_vars

\* the scheduler with ticks that raise and ticks that return, clients that
\* stay, and the cancellation of the task at shutdown
NextStop ==
    \/ LoopTickRaises(Quiet)
    \/ LoopTickReturns
    \/ SendCompletes
    \/ Cancel
    \/ \E c \in Sockets :
          \/ ClientConnects(c)
          \/ Accepted(c)
          \/ InitialSent(c)
SpecStop == Init /\ [][NextStop]_vars

-----------------------------------------------------------------------------
(* The phase clock *)

\* C1 as stated: after each of 40 calls of tick() on a fresh engine the
\* phase is 12 times TRADING, 8 times CLOSED, 12 times TRADING, 8 times CLOSED.
C1_TwelveTradingAfterTicks ==
    calls \in 1..40 =>
        phase = IF calls \in (1..12) \cup (21..32) THEN "TRADING" ELSE "CLOSED"

\* C1 amended: after each of 40 calls of tick() on a fresh engine the phase
\* is 11 times TRADING, 8 times CLOSED, 12 times TRADING, 8 times CLOSED and
\* TRADING again after the 40th; the 12/8/12/8 sequence is the one seen
\* before each call (the fresh engine counts as the first observation).
C1_PhaseSequence ==
    /\ calls \in 1..40 =>
          phase = IF calls \in (1..11) \cup (20..31) \cup {40}
                  THEN "TRADING" ELSE "CLOSED"
    /\ calls \in 0..39 =>
          phase = IF calls \in (0..11) \cup (20..31) THEN "TRADING" ELSE "CLOSED"

C1_Witness == calls = 40 /\ phase = "TRADING" /\ time_in_phase = 0

\* C2: the phase clock is periodic for the whole run: a tick either advances
\* time_in_phase by one inside the window or, on the 12th tick of a TRADING
\* window and the 8th tick of a CLOSED window, flips the phase and resets
\* time_in_phase to 0; time_in_phase is in 0..11 while TRADING and in 0..7
\* while CLOSED.
C2_PhaseClock ==
    /\ [](/\ phase \in {"TRADING", "CLOSED"}
          /\ phase = "TRADING" => time_in_phase \in 0..11
          /\ phase = "CLOSED" => time_in_phase \in 0..7)
    /\ [][ /\ calls' = calls => UNCHANGED <<phase, time_in_phase>>
           /\ calls' # calls =>
                LET window == IF phase = "TRADING" THEN 12 ELSE 8
                    other == IF phase = "TRADING" THEN "CLOSED" ELSE "TRADING"
                IN  IF time_in_phase + 1 < window
                    THEN phase' = phase /\ time_in_phase' = time_in_phase + 1
                    ELSE phase' = other /\ time_in_phase' = 0 ]_vars

\* the second TRADING window has just ended
C2_Witness == calls = 32 /\ phase = "CLOSED" /\ time_in_phase = 0

-----------------------------------------------------------------------------
(* What readers see between ticks *)

\* the phase clock after n completed ticks
ClockAfter(n) ==
    LET m == n % (TRADING_WINDOW_TICKS + CLOSE_WINDOW_TICKS) IN
    IF m < TRADING_WINDOW_TICKS
    THEN [phase |-> "TRADING", time_in_phase |-> m]
    ELSE [phase |-> "CLOSED", time_in_phase |-> m - TRADING_WINDOW_TICKS]

\* C3: every state a reader can see is the initial state or the state at the
\* end of a completed tick: the phase clock, every stock's sweep count and
\* the market-cap history all stand at the tick that tick_count names.
C3_ReadersSeeWholeTicks ==
    /\ [phase |-> phase, time_in_phase |-> time_in_phase] = ClockAfter(tick_count)
    /\ Len(market_cap_history) = Min(tick_count, 1461)
    /\ \A i \in 1..Len(stocks) :
          (stocks[i].status = "active" /\ stocks[i].perf_len > 0)
            => stocks[i].perf_len = Min(TRACKER_MAXLEN, tick_count + 1)
-----------------------------------------------------------------------------
(* Stock records *)

Active(i) == stocks[i].status = "active"
Bankrupt(i) == stocks[i].status = "bankrupt"

\* lg holds an entry msg1 and, after it, an entry msg2
LoggedInOrder(lg, msg1, msg2) ==
    \E j, k \in 1..Len(lg) : j < k /\ lg[j].msg = msg1 /\ lg[k].msg = msg2

\* C4: for every active stock, after every call that ends a tick (the IPO
\* admission included), market cap = price * shares outstanding.
C4_MarketCapIsPriceTimesShares ==
    \A i \in 1..Len(stocks) :
        Active(i) => stocks[i].current_market_cap
                       = stocks[i].price * stocks[i].shares_outstanding

\* C5: every bankrupt stock has price 0 and market cap 0.
C5_BankruptPriceZero ==
    \A i \in 1..Len(stocks) :
        Bankrupt(i) => stocks[i].price = 0 /\ stocks[i].current_market_cap = 0

\* C6: every active stock has price >= 0.01 (one cent) in every state,
\* whatever price steps and gap steps came before.
C6_ActivePriceFloor ==
    \A i \in 1..Len(stocks) : Active(i) => stocks[i].price >= 1

\* the market has reopened with a gap and an active stock sits on the floor
C6_Witness ==
    /\ calls = 2
    /\ phase = "TRADING"
    /\ \E i \in 1..Len(stocks) : Active(i) /\ stocks[i].price = 1

\* C7: a bankrupt record stays where it is, stays bankrupt and keeps every
\* field through every later tick (price sweep, gap pricing) and every
\* winner refresh.
C7_BankruptIsFinal ==
    [][\A i \in 1..Len(stocks) :
          Bankrupt(i) => i <= Len(stocks') /\ stocks'[i] = stocks[i]]_vars

\* a stock went bankrupt, the market reopened with a gap after that, and a
\* winner refresh has promoted another stock
C7_Witness ==
    /\ LoggedInOrder(logs, "Extinction", "Market open")
    /\ \E i, j \in 1..Len(stocks) :
          Bankrupt(i) /\ Active(j) /\ stocks[j].winner_status = "WINNER"

\* C8: in a tick, an active stock whose stepped price is below 0.25 and
\* whose health is at most 0.05 ends the tick bankrupt with price 0 and
\* market cap 0, an Extinction event counted and its history not pushed; in
\* particular a stock forced to price 0.1 and health 0.0 is bankrupt with
\* price 0 one tick later.
C8_BankruptcyRule ==
    [][calls' = calls + 1 =>
         \A i \in 1..Len(stocks) :
            LET gone == /\ stocks'[i].status = "bankrupt"
                        /\ stocks'[i].price = 0
                        /\ stocks'[i].current_market_cap = 0
                        /\ stocks'[i].history = stocks[i].history
                        /\ bankruptcy_count' > bankruptcy_count
            IN  /\ (Active(i) /\ stocks'[i].metabolic_health <= 50000
                      /\ stocks'[i].price < 25) => gone
                /\ (Active(i) /\ stocks[i].metabolic_health = 0
                      /\ stocks[i].price = 10) => gone]_vars

-----------------------------------------------------------------------------
(* IPO admission: process admits a stock exactly when it issues an id *)

\* C9: no IPO is admitted by a call made while the regime is not GROWTH.
C9_NoIPOOutsideGrowth ==
    [][ipo_stock_id_counter' # ipo_stock_id_counter => regime = "GROWTH"]_vars

\* C10: no IPO is admitted by a call made while the VIX is above 25.
C10_NoIPOAboveVix25 ==
    [][ipo_stock_id_counter' # ipo_stock_id_counter => vix <= 2500]_vars

\* C11: no IPO is admitted by a call made while 110 or more stocks are
\* active, and the number of active stocks never exceeds 110.
C11_ActiveCountCapped ==
    /\ [](ActiveCount(stocks) <= 110)
    /\ [][ipo_stock_id_counter' # ipo_stock_id_counter
            => ActiveCount(stocks) < 110]_vars

\* IPOs have filled the list and the next call of process runs the check
C11_Witness ==
    /\ Len(stocks) = 100
    /\ ActiveCount(stocks) = 100
    /\ ipo_stock_id_counter >= 1
    /\ regime = "GROWTH"
    /\ ipo_ticks_since_last_check = 19

\* C12 as stated: an IPO is admitted only by the call on which the counter
\* ticks_since_last_check reaches 50.
C12_FiftyTickInterval ==
    [][ipo_stock_id_counter' # ipo_stock_id_counter
         => ipo_ticks_since_last_check + 1 = 50]_vars

\* C12 amended: the counter ticks_since_last_check counts the calls of
\* process from 0 to 19 and returns to 0 on the 20th; an IPO is admitted
\* only by that 20th call, so two IPOs are at least 20 calls apart.
C12_TwentyTickInterval ==
    /\ [](ipo_ticks_since_last_check \in 0..19)
    /\ [][ /\ ipo_ticks_since_last_check' # ipo_ticks_since_last_check
               => ipo_ticks_since_last_check'
                    = IF ipo_ticks_since_last_check + 1 < 20
                      THEN ipo_ticks_since_last_check + 1 ELSE 0
           /\ ipo_stock_id_counter' # ipo_stock_id_counter
               => /\ ipo_ticks_since_last_check + 1 = 20
                  /\ ipo_ticks_since_last_check' = 0
                  /\ ipo_stock_id_counter' = ipo_stock_id_counter + 1 ]_vars

\* a second IPO has just been admitted
C12_Witness == ipo_stock_id_counter = 2 /\ ipo_ticks_since_last_check = 0

-----------------------------------------------------------------------------
(* The stock list under IPOs *)

\* C13 as stated: an IPO appends exactly one stock at the end of the list
\* and leaves every existing entry, bankrupt ones included, in place and
\* unchanged.
C13_IPOAppendsOnly ==
    [][ipo_stock_id_counter' # ipo_stock_id_counter
         => /\ Len(stocks') = Len(stocks) + 1
            /\ \A i \in 1..Len(stocks) : stocks'[i] = stocks[i]]_vars

\* C13 amended: an IPO overwrites the first bankrupt entry of the list in
\* place when there is one, and otherwise appends one stock at the end of
\* a list of fewer than 100; every other entry stays in place, unchanged.
C13_IPOReplacesFirstBankrupt ==
    [][ipo_stock_id_counter' # ipo_stock_id_counter
         => LET dead == {i \in 1..Len(stocks) : Bankrupt(i)}
                slot == IF dead = {} THEN Len(stocks) + 1
                        ELSE CHOOSE i \in dead : \A j \in dead : i <= j
            IN  /\ dead = {} => Len(stocks) < 100
                /\ Len(stocks') = Max(Len(stocks), slot)
                /\ stocks'[slot].status = "active"
                /\ stocks'[slot].id = ipo_stock_id_counter
                /\ \A i \in 1..Len(stocks) :
                      i # slot => stocks'[i] = stocks[i]]_vars

\* an IPO has taken the place of the first of two bankrupt entries
C13_Witness ==
    /\ ipo_stock_id_counter = 1
    /\ Len(stocks) = InitStocks
    /\ Active(1) /\ stocks[1].perf_len = 0
    /\ \E j \in 2..Len(stocks) : Bankrupt(j)

\* C14 as stated: the number of stocks never decreases and is at least the
\* initial count, and a bankrupt stock stays in the list.
C14_TombstonesStay ==
    /\ [](Len(stocks) >= InitStocks)
    /\ [][ /\ Len(stocks') >= Len(stocks)
           /\ \A i \in 1..Len(stocks) :
                 Bankrupt(i) => /\ stocks'[i].status = "bankrupt"
                                /\ stocks'[i].id = stocks[i].id ]_vars

\* C14 amended: the number of stocks never decreases and is at least the
\* initial count; a bankrupt stock stays in the list, unchanged, until an
\* IPO overwrites it, which happens only to the first bankrupt entry.
C14_CountNeverDecreases ==
    /\ [](Len(stocks) >= InitStocks)
    /\ [][ /\ Len(stocks') >= Len(stocks)
           /\ \A i \in 1..Len(stocks) :
                 (Bankrupt(i) /\ stocks'[i] # stocks[i])
                   => /\ ipo_stock_id_counter' = ipo_stock_id_counter + 1
                      /\ \A j \in 1..(i - 1) : Active(j) ]_vars

\* the list has grown by an IPO and holds a bankrupt stock
C14_Witness ==
    /\ Len(stocks) = InitStocks + 1
    /\ ipo_stock_id_counter = 1
    /\ \E i \in 1..Len(stocks) : Bankrupt(i)

\* C18: the history of every active stock holds exactly 60 prices, at
\* seeding, at IPO, after every price sweep and after gap pricing.
C18_HistoryHoldsSixty ==
    \A i \in 1..Len(stocks) : Active(i) => Len(stocks[i].history) = 60

\* a stock admitted by an IPO has been through one price sweep
C18_Witness ==
    /\ ipo_stock_id_counter = 1
    /\ \E i \in 1..Len(stocks) :
          /\ Active(i) /\ stocks[i].perf_len = 1
          /\ Len(stocks[i].history) = 60

-----------------------------------------------------------------------------
(* Gap pricing and the closed market *)

\* the gap factors 0.98 .. 0.995 and 1.005 .. 1.02, as signed basis points
GapBand == (-200..-50) \cup (50..200)

\* C15 as stated: gap pricing multiplies the price of every active stock
\* by a factor in [0.98, 0.995] or [1.005, 1.02], whatever the price.
C15_GapFactorInBand ==
    [][gap_calls' # gap_calls =>
         \A i \in 1..Len(stocks) :
            Active(i) => \E b \in GapBand :
                stocks'[i].price = (stocks[i].price * (10000 + b)) \div 10000]_vars

\* C15 amended: gap pricing sets the price of every active stock to the
\* larger of 0.10 and its pre-gap price times a factor in [0.98, 0.995] or
\* [1.005, 1.02]: a product below 0.10 is raised to 0.10.
C15_GapFactorOrFloor ==
    [][gap_calls' # gap_calls =>
         \A i \in 1..Len(stocks) :
            Active(i) => \E b \in GapBand :
                stocks'[i].price
                  = Max(10, (stocks[i].price * (10000 + b)) \div 10000)]_vars

\* after a gap step one active stock sits on the gap floor and another has
\* moved by 2%
C15_Witness ==
    /\ gap_calls = 1
    /\ \E i, j \in 1..Len(stocks) :
          /\ Active(i) /\ stocks[i].price = 10
          /\ Active(j) /\ stocks[j].price = 10200

\* C16: on a tick that starts and ends in the CLOSED phase the price of
\* every active stock is unchanged.
C16_ClosedPricesFrozen ==
    [][(calls' # calls /\ phase = "CLOSED" /\ phase' = "CLOSED") =>
         \A i \in 1..Len(stocks) :
            Active(i) => stocks'[i].price = stocks[i].price]_vars

\* C17: gap pricing changes nothing but the price of active stocks: every
\* history keeps its contents and length, bankrupt stocks and all other
\* fields are untouched.
C17_GapLeavesHistory ==
    [][gap_calls' # gap_calls =>
         /\ Len(stocks') = Len(stocks)
         /\ \A i \in 1..Len(stocks) :
               /\ stocks'[i].history = stocks[i].history
               /\ [stocks'[i] EXCEPT !.price = stocks[i].price] = stocks[i]
               /\ Bankrupt(i) => stocks'[i] = stocks[i]]_vars

\* after a gap step an active stock's price differs from the newest entry
\* of its history, next to a bankrupt stock
C17_Witness ==
    /\ gap_calls = 1
    /\ \E i, j \in 1..Len(stocks) :
          /\ Active(i) /\ stocks[i].price # stocks[i].history[60]
          /\ Bankrupt(j)

-----------------------------------------------------------------------------
(* Macro variables *)

\* C19: the VIX is at least 10 in every state, whatever the regimes, the
\* spikes and the noise drawn.
C19_VixAtLeastTen == vix >= 1000

\* a tick with the lowest noise has left the VIX just above its floor
C19_Witness == calls >= 1 /\ vix >= 1000 /\ vix < 1010

-----------------------------------------------------------------------------
(* Period returns of the snapshot *)

ReturnOver(pr, n) ==
    CASE n = 60 -> pr.return60 [] n = 180 -> pr.return180 [] n = 365 -> pr.return365

\* 100 * (last - past) / past with past the sample n positions before the
\* last, in hundredths of a percent
ReturnFormula(h, n) == ((h[Len(h)] - h[Len(h) - n]) * 10000) \div h[Len(h) - n]

\* C20 as stated: for N in {60, 180, 365}, returnN of the snapshot is null
\* if and only if market_cap_history holds fewer than N + 1 samples, and is
\* 100 * (last - past) / past otherwise.
C20_NullIffTooFewSamples ==
    Len(snapshot) = 1 =>
        \A n \in {60, 180, 365} :
            LET r == ReturnOver(snapshot[1].period_returns, n) IN
            IF Len(market_cap_history) < n + 1 THEN r = <<>>
            ELSE /\ r # <<>>
                 /\ r = <<ReturnFormula(market_cap_history, n)>>

\* C20 amended: returnN is null if and only if market_cap_history holds
\* fewer than N + 1 samples or the sample N positions before the last is 0,
\* and is 100 * (last - past) / past otherwise.
C20_NullIffNoPastValue ==
    Len(snapshot) = 1 =>
        \A n \in {60, 180, 365} :
            LET r == ReturnOver(snapshot[1].period_returns, n)
                h == market_cap_history
            IN  IF Len(h) < n + 1 THEN r = <<>>
                ELSE IF h[Len(h) - n] = 0 THEN r = <<>>
                ELSE r = <<ReturnFormula(h, n)>>

\* a snapshot of 367 samples whose sample 60 positions back is 0: return60
\* is null, return365 is a number other than 0
C20_Witness ==
    /\ Len(snapshot) = 1
    /\ Len(market_cap_history) = 367
    /\ snapshot[1].period_returns.return60 = <<>>
    /\ snapshot[1].period_returns.return365 # <<>>
    /\ snapshot[1].period_returns.return365 # <<0>>

-----------------------------------------------------------------------------
(* The regime check *)

C23_SnapshotIdempotent ==
    [][Len(snapshot') > Len(snapshot) =>
         /\ UNCHANGED <<phase, time_in_phase, tick_count, regime,
                        rm_ticks_since_last_check, vix, interest_rate, stocks,
                        market_cap_history, logs, bankruptcy_count, ipo_count,
                        ipo_ticks_since_last_check, ipo_stock_id_counter,
                        ipo_event, gap_calls, analytics, rand>>
         /\ snapshot'[Len(snapshot')] = snapshot'[1]]_vars

\* two snapshots of an engine that has ticked, logged and lost a stock
C23_Witness ==
    /\ Len(snapshot) = 2
    /\ calls = RunTicks
    /\ BankruptCount(stocks) > 0
    /\ snapshot[2].logs # <<>>
    /\ snapshot[2].stocks = stocks

\* C22: at the end of every tick the analytics totals over the completed
\* and the current cycle equal the number of stocks that have gone from
\* active to bankrupt and the number of stocks admitted by IPO
C22_TotalsMatchEvents ==
    LET summary == GetAnalyticsSnapshot(analytics, ipo_count,
                                        bankruptcy_count, tick_count).summary
    IN  /\ summary.total_bankruptcies = BankruptCount(stocks)
        /\ summary.total_ipos = ipo_stock_id_counter

\* C21: counting the calls of tick() from 0, there is no completed cycle
\* before call 7300 has run; once it has run there is exactly one, with
\* end_tick - start_tick = 7300, and the accumulators of the current cycle
\* are back at zero
C21_OneCycleAfterTick7300 ==
    /\ calls <= TICKS_PER_CYCLE => analytics.completed_cycles = <<>>
    /\ calls > TICKS_PER_CYCLE =>
          /\ Len(analytics.completed_cycles) = 1
          /\ analytics.completed_cycles[1].end_tick
                - analytics.completed_cycles[1].start_tick = TICKS_PER_CYCLE
          /\ ipo_count = 0
          /\ bankruptcy_count = 0
          /\ analytics.n_samples = 0
          /\ analytics.regime_transition_count = 0
          /\ \A r \in Regimes : analytics.regime_ticks[r] = 0

\* C28: on every connection the first message handed to send_json is the
\* one of type 'initial' and every message after it is an 'update',
\* whatever the interleaving of the handlers with the broadcast
C28_InitialBeforeUpdates ==
    \A c \in Sockets :
        \A j \in 1..Len(sockets[c].wire) :
            sockets[c].wire[j] = IF j = 1 THEN "initial" ELSE "update"

\* a client accepted while a broadcast was suspended in a send to another
\* one, and reached by that same broadcast after its initial message
C28_Witness ==
    \E c, d \in Sockets :
        /\ c # d
        /\ loop.broadcasts = 1
        /\ bcast.pc = "sending"
        /\ bcast.conn = d
        /\ bcast.sent = <<c, d>>
        /\ sockets[d].wire = <<"initial", "update">>

\* C24: an exception of tick() never ends the scheduler: the loop is always
\* at one of its awaits or cancelled, and while every call of tick() raises
\* the loop goes on calling it, up to the horizon explored, unless the task
\* is cancelled first
C24_TickRetriedAfterFailure ==
    /\ [](loop.pc \in Wakeable \cup {"broadcast", "cancelled"})
    /\ <>(calls = MaxCalls \/ loop.cancelled)

\* the loop has gone through every failure up to the horizon and is asleep
\* in its error handler
C24_Witness ==
    /\ calls = MaxCalls
    /\ exc = "TypeError"
    /\ loop.pc = "error_sleep"
    /\ ~loop.cancelled

\* C25: between two ticks of the scheduler the number of broadcasts issued
\* is half the number of ticks made, rounded down: one broadcast after every
\* second tick
C25_BroadcastEverySecondTick ==
    loop.pc \in {"sleep", "error_sleep"} =>
        loop.broadcasts = (calls + loop.tick_counter) \div 2

\* C26: while a send of a broadcast has not completed the scheduler is not
\* held by it: it is at a sleep from which it goes on to its next tick
C26_SendNeverHoldsLoop ==
    bcast.pc = "sending" => loop.pc \in Wakeable

\* C27: when a broadcast in which a send failed returns, the connections
\* whose send failed are off the list, every connection that was on the
\* list when the broadcast began and is on it still was sent the message,
\* and the scheduler goes to its sleep
C27_FailedSendDropsOnlySender ==
    [][(bcast.pc = "sending" /\ bcast'.pc = "idle"
           /\ bcast'.disconnected # <<>>) =>
         /\ \A c \in Members(bcast'.disconnected) :
               c \notin Members(active_connections')
         /\ \A c \in bcast.listed \cap Members(active_connections') :
               c \in Members(bcast.sent)
         /\ loop'.pc = "sleep"]_vars

\* C29: the task is cancelled at an await of the loop, by a step that leaves
\* the engine as it is and ends the loop; after it no tick() is called, no
\* tick is counted, no broadcast is started and no update is sent
C29_CancelledBetweenTicks ==
    [][/\ (loop'.cancelled /\ ~loop.cancelled) =>
             /\ loop.pc \in Wakeable \cup {"broadcast"}
             /\ loop'.pc = "cancelled"
             /\ UNCHANGED engine
       /\ loop.cancelled =>
             /\ loop' = loop
             /\ calls' = calls
             /\ bcast' = bcast
             /\ \A c \in Sockets :
                   \/ sockets'[c].wire = sockets[c].wire
                   \/ sockets'[c].wire = <<"initial">>]_vars

\* the task cancelled after a tick that raised and a broadcast that reached
\* a client
C29_Witness ==
    /\ loop.cancelled
    /\ loop.pc = "cancelled"
    /\ exc = "TypeError"
    /\ loop.broadcasts = 1
    /\ \E c \in Sockets : sockets[c].wire = <<"initial", "update">>

\* the first successor of r, in the declared order of its row, whose
\* cumulative mass exceeds u
FirstExceeding(r, u) ==
    LET row == REGIME_TRANSITIONS(r)
    IN  RegimeOrder[CHOOSE k \in 1..4 :
                       /\ u < Cumulative(row, k)
                       /\ \A j \in 1..(k - 1) : u >= Cumulative(row, j)]

\* C31: the regime is always one of the four declared ones; on a tick whose
\* regime check draws U the regime becomes the first successor whose
\* cumulative mass exceeds U, and the tick logs a regime shift exactly
\* when that successor is not the regime the tick started in
C31_FirstSuccessorAboveDraw ==
    /\ [](regime \in Regimes)
    /\ [][(calls' = calls + 1 /\ rand' # <<>>) =>
            /\ regime' = FirstExceeding(regime, rand'[1])
            /\ (regime' # regime) <=>
                   /\ logs' # logs
                   /\ logs'[Len(logs')].msg = "Regime Shift"]_vars

\* a check under CONTRACTION that drew 0.007, past GROWTH (0.004) and short
\* of STAGNATION (0.008), and reported the shift
C31_Witness ==
    /\ rand = <<7>>
    /\ regime = "STAGNATION"
    /\ vix = VixBase("CONTRACTION") - ((VixBase("CONTRACTION") - VixBase("STAGNATION")) * 15) \div 100
    /\ logs # <<>>
    /\ logs[Len(logs)].msg = "Regime Shift"

\* C32: a tick that starts in GROWTH does not end in CRISIS
C32_NoGrowthToCrisis ==
    [][regime = "GROWTH" => regime' # "CRISIS"]_vars

\* a check under GROWTH that drew 0.999, the draw nearest to 1, and left
\* for CONTRACTION
C32_Witness ==
    /\ rand = <<999>>
    /\ regime = "CONTRACTION"
    /\ interest_rate = MacroRate("CONTRACTION", TargetRate("GROWTH"), 0)

\* C33: the interest rate is never negative
C33_RateNonNegative == interest_rate >= 0

\* the rate under GROWTH after the noise was at its lower end on every tick
\* from 0.56
C33_Witness ==
    /\ calls = RunTicks
    /\ regime = "GROWTH"
    /\ interest_rate < 5600
    /\ interest_rate > 5500
-----------------------------------------------------------------------------
(* The steps of a tick *)

\* C34: every call of tick() returns without an exception, has pushed
\* exactly one market-cap sample and has incremented tick_count by one.
C34_TickRunsToCompletion ==
    [][calls' = calls + 1 =>
          /\ exc' = "none"
          /\ tick_count' = tick_count + 1
          /\ Len(market_cap_history') = Min(Len(market_cap_history) + 1, 1461)]_vars
-----------------------------------------------------------------------------
(* The log ring *)

\* ten phase changes, the last one a close: the ring of an engine whose
\* last ten events were the market closing and opening in turn
PhaseRing ==
    [k \in 1..LOG_RING |->
        IF k % 2 = 0
        THEN [msg |-> "Market closing", type |-> "warning", tick |-> 0]
        ELSE [msg |-> "Market open", type |-> "success", tick |-> 0]]

\* a closed market two ticks before it opens, with an empty or a full ring
InitLogs ==
    /\ phase = "CLOSED"
    /\ time_in_phase = 6
    /\ tick_count = 0
    /\ rm_ticks_since_last_check = 3
    /\ \E m \in RunMacro :
          regime = m.regime /\ vix = m.vix /\ interest_rate = m.interest_rate
    /\ \E pf \in [1..InitStocks -> RunProfiles] :
          stocks = [i \in 1..InitStocks |->
                      RunStock(i - 1, pf[i].price, 1000, pf[i].health)]
    /\ market_cap_history = <<>>
    /\ logs \in {<<>>, PhaseRing}
    /\ bankruptcy_count = 0
    /\ ipo_count = 0
    /\ ipo_ticks_since_last_check = 18
    /\ ipo_stock_id_counter = 0
    /\ ipo_event = "None"
    /\ calls = 0
    /\ exc = "none"
    /\ gap_calls = 0
    /\ snapshot = <<>>
    /\ analytics = AnalyticsFresh
    /\ rand = <<>>
    /\ NetIdle

\* either bankruptcy draw for a stock in distress, and a regime draw that
\* stays or leaves
Eventful ==
    [horizon |-> RunTicks, us |-> {500, 995}, spikes |-> {0}, vnoises |-> {0},
     rnoises |-> {0}, factors |-> {100}, gaps |-> {50},
     draws |-> {TRUE, FALSE}, ipos |-> 0, ipo_prices |-> {}, ipo_extras |-> {}]

NextLogs == Tick(Eventful) \/ GetFrontendSnapshot
SpecLogs == InitLogs /\ [][NextLogs]_vars

\* the last n entries of s
LastN(s, n) == SubSeq(s, Max(1, Len(s) - n + 1), Len(s))

MsgsOf(lg) == [k \in 1..Len(lg) |-> lg[k].msg]

\* the messages a tick emits, in the order it emits them: the phase change,
\* the regime shift, one extinction per bankruptcy
EmittedMsgs ==
    (IF phase' = phase THEN <<>>
     ELSE IF phase' = "CLOSED" THEN <<"Market closing">>
     ELSE <<"Market open">>)
    \o (IF regime' = regime THEN <<>> ELSE <<"Regime Shift">>)
    \o [k \in 1..(bankruptcy_count' - bankruptcy_count) |-> "Extinction"]

\* C35: the ring holds at most 10 entries; after every tick it holds the
\* last 10 of what it held followed by what the tick emitted, in that order;
\* every snapshot carries at most 5 entries, the last 5 of the ring.
C35_RingKeepsMostRecent ==
    /\ [](/\ Len(logs) <= 10
          /\ \A k \in 1..Len(snapshot) :
                /\ Len(snapshot[k].logs) <= 5
                /\ snapshot[k].logs = LastN(logs, 5))
    /\ [][calls' = calls + 1 =>
            MsgsOf(logs') = LastN(MsgsOf(logs) \o EmittedMsgs, 10)]_vars

\* a full ring that lost its three oldest entries to a market open and two
\* extinctions, read by a snapshot
C35_Witness ==
    /\ Len(logs) = 10
    /\ MsgsOf(LastN(logs, 3)) = <<"Market open", "Extinction", "Extinction">>
    /\ logs[1].msg = "Market closing"
    /\ snapshot # <<>>
    /\ Len(snapshot[1].logs) = 5
-----------------------------------------------------------------------------
(* Stock identifiers *)

\* C37: no two stocks of the list carry the same id.
C37_StockIdsDistinct ==
    \A i, j \in 1..Len(stocks) : i # j => stocks[i].id # stocks[j].id
-----------------------------------------------------------------------------
(* The external API: Stock.to_external_dict, get_market_snapshot and       *)
(* list_stocks.  The descriptive fields a stock never changes (ticker,     *)
(* name, sector, subIndustry, volatility) are not part of the stock        *)
(* record; round(price, 2) is the price in cents.                          *)

ToExternalDict(s, market_status) ==
    [id |-> s.id,
     price |-> s.price,
     marketStatus |-> market_status,
     sharesOutstanding |-> s.shares_outstanding,
     currentMarketCap |-> s.current_market_cap]

\* 'open' if simulation.market_state.phase == 'TRADING' else 'closed'
MarketStatus(ph) == IF ph = "TRADING" THEN "open" ELSE "closed"

\* the body get_market_snapshot builds; MarketSnapshotResponse declares
\* stocks as a plain list and passes the dicts through
MarketSnapshot(stks, ph, v, rate, tip, lg) ==
    [stocks |-> [i \in 1..Len(stks) |-> ToExternalDict(stks[i], MarketStatus(ph))],
     market_state |-> [vix |-> v, interest_rate |-> rate,
                       phase |-> MarketStatus(ph)],
     time |-> tip,
     logs |-> LastLogs(lg)]

\* StockResponse(**d): valueScore is a required field, accepted under its
\* name or under its alias value_score
StockResponseValid(d) ==
    "valueScore" \in DOMAIN d \/ "value_score" \in DOMAIN d

\* the outcome of list_stocks(page, page_size, sector=None, status); status
\* "None" stands for no filter
ListStocks(stks, ph, page, page_size, status) ==
    LET Kept(st) == status = "None" \/ st.status = status
        filtered == SelectSeq(stks, Kept)
        total == Len(filtered)
        start == (page - 1) * page_size
        page_data == SubSeq(filtered, start + 1, Min(start + page_size, total))
        data == [k \in 1..Len(page_data) |->
                    ToExternalDict(page_data[k], MarketStatus(ph))]
    IN  IF \E k \in 1..Len(data) : ~StockResponseValid(data[k])
        THEN [raised |-> "ValidationError", data |-> <<>>, total |-> 0,
              total_pages |-> 0]
        ELSE [raised |-> "none", data |-> data, total |-> total,
              total_pages |-> (total + page_size - 1) \div page_size]

Pages == {1, 2}
PageSizes == {1, 50}
StatusFilters == {"None", "active", "bankrupt"}

GetMarketSnapshot ==
    /\ Len(snapshot) < MaxSnapshots
    /\ snapshot' = Append(snapshot,
                     [route |-> "market",
                      response |-> MarketSnapshot(stocks, phase, vix,
                                      interest_rate, time_in_phase, logs)])
    /\ UNCHANGED <<phase, time_in_phase, tick_count, regime,
                   rm_ticks_since_last_check, vix, interest_rate, stocks,
                   market_cap_history, logs, bankruptcy_count, ipo_count,
                   ipo_ticks_since_last_check, ipo_stock_id_counter,
                   ipo_event, calls, exc, gap_calls, analytics, rand>>
    /\ UNCHANGED netvars

ListStocksCall ==
    /\ Len(snapshot) < MaxSnapshots
    /\ \E page \in Pages, page_size \in PageSizes, status \in StatusFilters :
          snapshot' = Append(snapshot,
                        [route |-> "stocks", page |-> page,
                         page_size |-> page_size, status |-> status,
                         response |-> ListStocks(stocks, phase, page,
                                                 page_size, status)])
    /\ UNCHANGED <<phase, time_in_phase, tick_count, regime,
                   rm_ticks_since_last_check, vix, interest_rate, stocks,
                   market_cap_history, logs, bankruptcy_count, ipo_count,
                   ipo_ticks_since_last_check, ipo_stock_id_counter,
                   ipo_event, calls, exc, gap_calls, analytics, rand>>
    /\ UNCHANGED netvars

NextExternal == Tick(Stressed) \/ GetMarketSnapshot \/ ListStocksCall
SpecExternal == InitRun /\ [][NextExternal]_vars

\* the stock lists that differ from stks in the hidden fields of one stock
HiddenVariants(stks) ==
    {[stks EXCEPT ![i] = [@ EXCEPT
          !.metabolic_health = h,
          !.status = st,
          !.history = IF flat THEN [k \in 1..HISTORY_LENGTH |-> 1] ELSE @]] :
        i \in 1..Len(stks), h \in {0, 1000000},
        st \in {"active", "bankrupt"}, flat \in BOOLEAN}

\* C36: what the external routes have returned is what they would return
\* had one stock's metabolic_health, status or history been different, and
\* every projected stock says 'open' exactly when the phase is TRADING.
C36_ProjectionHidesInternals ==
    \A k \in 1..Len(snapshot) :
        IF snapshot[k].route = "market"
        THEN /\ \A v \in HiddenVariants(stocks) :
                    snapshot[k].response =
                        MarketSnapshot(v, phase, vix, interest_rate,
                                       time_in_phase, logs)
             /\ \A i \in 1..Len(snapshot[k].response.stocks) :
                    snapshot[k].response.stocks[i].marketStatus = "open"
                        <=> phase = "TRADING"
        ELSE \A v \in HiddenVariants(stocks) :
                snapshot[k].response =
                    ListStocks(v, phase, snapshot[k].page,
                               snapshot[k].page_size, snapshot[k].status)
-----------------------------------------------------------------------------
(* Delivery of a broadcast *)

\* how many times connection c was handed the message by the broadcast
TimesSent(sent, c) == Cardinality({j \in 1..Len(sent) : sent[j] = c})

\* C38: when a broadcast returns, every connection that was on the list
\* when it began and is on the list still has been handed the message
\* exactly once by it.
C38_RemainingConnectionsSentOnce ==
    [][(bcast.pc = "sending" /\ bcast'.pc = "idle") =>
         \A c \in bcast.listed \cap Members(active_connections') :
             TimesSent(bcast.sent, c) = 1]_vars
-----------------------------------------------------------------------------
(* tick() from its sixth step on: the market-cap push, the analytics       *)
(* update and the tick counter (simulation.py:142-170), run on their own   *)
(* after a sweep that moved every active stock's price by the same step.   *)
(* The winner refresh between them changes winner_status only and is left  *)
(* to WinnerRefresh.                                                       *)

ENGINE_CAP_MAXLEN == 1461       \* deque(maxlen=1461)
ANALYTICS_CAP_MAXLEN == 366     \* deque(maxlen=366)

\* deque.append on a deque of the given maxlen
DequeAppend(h, x, maxlen) ==
    IF Len(h) >= maxlen THEN Append(Tail(h), x) ELSE Append(h, x)

\* an analytics buffer one sample shorter
AnalyticsAppendShort(h, x) == DequeAppend(h, x, ANALYTICS_CAP_MAXLEN - 1)

\* self.market_cap_history.append(total_market_cap) of CycleAnalytics
AnalyticsAppend(h, x) == DequeAppend(h, x, ANALYTICS_CAP_MAXLEN)

RECURSIVE CalculateTotalMarketCap(_)
\* sum(s.current_market_cap for s in self.stocks if s.status == 'active')
CalculateTotalMarketCap(stks) ==
    IF stks = <<>> THEN 0
    ELSE (IF Head(stks).status = "active" THEN Head(stks).current_market_cap
          ELSE 0) + CalculateTotalMarketCap(Tail(stks))

\* CycleAnalytics._complete_cycle(tick): the record without its two event
\* counters, which the caller zeroes
CompleteCycle(a, ipos, bankruptcies, tick) ==
    [a EXCEPT
        !.completed_cycles =
            Append(@, CalculateCycleStats(a, ipos, bankruptcies, tick, TRUE)),
        !.current_cycle_number = @ + 1,
        !.current_cycle_start_tick = tick,
        !.n_samples = 0,
        !.regime_ticks = [r \in Regimes |-> 0],
        !.regime_transition_count = 0]

\* the test of tick_update that ends a cycle
CycleOver(a, tick) ==
    LET ticks_in_current_cycle == tick - a.current_cycle_start_tick
    IN  /\ ticks_in_current_cycle >= TICKS_PER_CYCLE
        /\ ticks_in_current_cycle % TICKS_PER_CYCLE = 0

\* the accumulators after the appends of CycleAnalytics.tick_update
Accumulate(a, r, total_market_cap) ==
    [a EXCEPT
        !.n_samples = @ + 1,
        !.market_cap_history = AnalyticsAppend(@, total_market_cap),
        !.regime_ticks[r] = @ + 1,
        !.regime_transition_count =
            IF a.last_regime # "None" /\ a.last_regime # r THEN @ + 1 ELSE @,
        !.last_regime = r]

\* every active stock after a sweep that moved its price by step
Moved(stks, step) ==
    [i \in 1..Len(stks) |->
        IF stks[i].status = "active"
        THEN [stks[i] EXCEPT
                !.price = @ + step,
                !.current_market_cap =
                    (stks[i].price + step) * stks[i].shares_outstanding]
        ELSE stks[i]]

TrackAndCount(in) ==
    /\ calls < in.horizon
    /\ \E step \in in.steps :
        LET swept == Moved(stocks, step)
            total_market_cap == CalculateTotalMarketCap(swept)
            acc == Accumulate(analytics, regime, total_market_cap)
            over == CycleOver(acc, tick_count)
        IN  /\ stocks' = swept
            /\ market_cap_history' =
                  DequeAppend(market_cap_history, total_market_cap,
                              ENGINE_CAP_MAXLEN)
            /\ analytics' = IF over
                            THEN CompleteCycle(acc, ipo_count,
                                               bankruptcy_count, tick_count)
                            ELSE acc
            /\ ipo_count' = IF over THEN 0 ELSE ipo_count
            /\ bankruptcy_count' = IF over THEN 0 ELSE bankruptcy_count
    /\ tick_count' = tick_count + 1
    /\ calls' = calls + 1
    /\ exc' = "none"
    /\ snapshot' = <<>>
    /\ UNCHANGED <<phase, time_in_phase, regime, rm_ticks_since_last_check,
                   vix, interest_rate, logs, ipo_ticks_since_last_check,
                   ipo_stock_id_counter, ipo_event, gap_calls, rand>>
    /\ UNCHANGED netvars

\* cycles run through from a fresh engine
CompletedCycles == 2

Steady ==
    [horizon |-> CompletedCycles * TICKS_PER_CYCLE + 1, steps |-> {0}]

InitCycle ==
    MidRun("TRADING", 0,
           [regime |-> "GROWTH", vix |-> 1550, interest_rate |-> 12500],
           [i \in 1..InitStocks |-> RunStock(i - 1, 10000, 1000, 1000000)])

NextCycle == TrackAndCount(Steady)
SpecCycle == InitCycle /\ [][NextCycle]_vars

\* C39: the k-th completed cycle, k from 0, starts at tick 7300 * k, ends at
\* tick 7300 * (k + 1) and aggregates exactly 7300 samples, 7300 regime
\* ticks among them.
C39_CyclesContiguousAndUniform ==
    \A k \in 1..Len(analytics.completed_cycles) :
        LET c == analytics.completed_cycles[k] IN
        /\ c.start_tick = 7300 * (k - 1)
        /\ c.end_tick = 7300 * k
        /\ c.samples = 7300
        /\ c.regime_ticks["GROWTH"] + c.regime_ticks["STAGNATION"]
             + c.regime_ticks["CONTRACTION"] + c.regime_ticks["CRISIS"] = 7300
-----------------------------------------------------------------------------
(* The two market-cap buffers *)

\* a price of 500.00 that has moved by slope cents per tick for k ticks
DriftedPrice(slope, k) == 50000 + slope * k

\* the n totals the engine has pushed while the price of its stocks, of 10
\* shares each, drifted, with a single 0 total (no active stock) dip
\* positions before the last
DriftedCaps(n, slope, dip) ==
    [k \in 1..n |-> IF dip > 0 /\ k = n - dip THEN 0
                    ELSE InitStocks * 10 * DriftedPrice(slope, k)]

\* the last maxlen elements of h: what a deque of that maxlen holds after
\* the appends that built h
Kept(h, maxlen) == SubSeq(h, Max(1, Len(h) - maxlen + 1), Len(h))

SampleCounts == {0, 59, 60, 179, 180, 364, 365, 366, 1460, 1461}

\* the engine after n ticks of cycle 0, n around the lengths at which a
\* return becomes available and at which each buffer is full
InitReturns ==
    /\ phase = "TRADING"
    /\ time_in_phase = 0
    /\ regime = "GROWTH"
    /\ rm_ticks_since_last_check = 0
    /\ vix = 1550
    /\ interest_rate = 12500
    /\ \E n \in SampleCounts, slope \in {-5, 0, 8}, dip \in {0, 59, 179, 364} :
          /\ stocks = [i \in 1..InitStocks |->
                          RunStock(i - 1, DriftedPrice(slope, n), 10, 1000000)]
          /\ market_cap_history = DriftedCaps(n, slope, dip)
          /\ tick_count = n
          /\ analytics =
                [AnalyticsFresh EXCEPT
                    !.n_samples = n,
                    !.regime_ticks["GROWTH"] = n,
                    !.last_regime = IF n > 0 THEN "GROWTH" ELSE "None",
                    !.market_cap_history =
                        Kept(DriftedCaps(n, slope, dip), ANALYTICS_CAP_MAXLEN)]
    /\ logs = <<>>
    /\ bankruptcy_count = 0
    /\ ipo_count = 0
    /\ ipo_ticks_since_last_check = 0
    /\ ipo_stock_id_counter = 0
    /\ ipo_event = "None"
    /\ calls = 0
    /\ exc = "none"
    /\ gap_calls = 0
    /\ snapshot = <<>>
    /\ rand = <<>>
    /\ NetIdle

\* the price steps explored: down, none, up
Wobble == [horizon |-> RunTicks, steps |-> {-7, 0, 3}]

NextReturns == TrackAndCount(Wobble) \/ GetFrontendSnapshot
SpecReturns == InitReturns /\ [][NextReturns]_vars

\* the cycle's return over n ticks
CycleReturnOver(c, n) ==
    CASE n = 60 -> c.return_60t [] n = 180 -> c.return_180t
      [] n = 365 -> c.return_365t

\* 100 * (last - past) / past to the nearest hundredth of a percent
NearestReturn(h, n) ==
    LET last == h[Len(h)]
        past == h[Len(h) - n]
    IN  CHOOSE x \in ((last - past) * 10000) \div past
                        .. ((last - past) * 10000) \div past + 1 :
            /\ 2 * (last - past) * 10000 < (2 * x + 1) * past
            /\ 2 * (last - past) * 10000 >= (2 * x - 1) * past

\* C40: in every snapshot that reports a current cycle, the cycle's return
\* over 60, 180 and 365 ticks is null exactly when the snapshot's period
\* return over the same ticks is null, and otherwise is the return the
\* engine's own history gives, rounded to the nearest hundredth.
C40_BuffersAgree ==
    \A k \in 1..Len(snapshot) :
        snapshot[k].analytics.current_cycle # <<>> =>
            \A n \in {60, 180, 365} :
                LET a == CycleReturnOver(snapshot[k].analytics.current_cycle[1], n)
                    r == ReturnOver(snapshot[k].period_returns, n)
                IN  /\ a = <<>> <=> r = <<>>
                    /\ a # <<>> =>
                          /\ a[1] = NearestReturn(market_cap_history, n)
                          /\ a[1] \in {r[1], r[1] + 1}

\* a snapshot after the engine's buffer has outgrown the 366 samples of the
\* analytics buffer: the 365-tick return is there in both, and rounds up;
\* the 60-tick return is null in both, the total 60 ticks back being 0
C40_Witness ==
    /\ calls > 0
    /\ snapshot # <<>>
    /\ Len(market_cap_history) > ANALYTICS_CAP_MAXLEN
    /\ snapshot[1].analytics.current_cycle # <<>>
    /\ snapshot[1].analytics.current_cycle[1].return_365t # <<>>
    /\ snapshot[1].analytics.current_cycle[1].return_365t[1]
          = snapshot[1].period_returns.return365[1] + 1
    /\ snapshot[1].analytics.current_cycle[1].return_180t # <<>>
    /\ snapshot[1].analytics.current_cycle[1].return_60t = <<>>
    /\ snapshot[1].period_returns.return60 = <<>>
====
